---- MODULE Spec2Model ----
(***************************************************************************)
(* Model of the chatbot's tool-call orchestration (src/app.py) and of the  *)
(* PostgreSQL gateway (src/mcp_postgres_server.py).                        *)
(*                                                                         *)
(* Texts are sequences of string pieces, so that an f-string is the        *)
(* concatenation of its pieces.  An optional value (Python None or a       *)
(* value) is a sequence of length 0 or 1.  A Python dict is a sequence of  *)
(* [key, val] records in insertion order.                                  *)
(***************************************************************************)
EXTENDS Integers, Sequences, FiniteSets, TLC

VARIABLES
    env_missing,      \* required Azure OpenAI variables absent from os.environ
    mcp_tools,        \* app.py global: provider name -> list of tool infos
    mcp_sessions,     \* app.py global: provider name -> ClientSession
    user_mcp_tools,   \* cl.user_session["mcp_tools"] of the observed chat session
    history,          \* cl.user_session["history"] of the observed chat session
    sent,             \* messages main has sent to the user in the current turn
    notice,           \* last message a hook or start_chat sent to the observed session
    pc,               \* position of the message handler main
    turn,             \* user messages received so far
    calls_made,       \* tool-call requests the model has issued so far
    model_calls,      \* chat.completions.create calls made in the current turn
    request_tools,    \* optional "tools" parameter of the last model request
    response,         \* response.choices[0].message of the current turn
    idx,              \* index of the tool call the dispatch loop is at
    tool_name,        \* main's local variable tool_name (optional: unbound at first)
    tool_outputs,     \* main's local list tool_outputs
    invoked,          \* session.call_tool invocations of the current turn
    turn_result,      \* how the last completed run of main ended
    reg_ops,          \* connect / disconnect hook runs so far
    pg_env,           \* mcp_postgres_server.py: os.environ after load_dotenv
    connection_pool,  \* mcp_postgres_server.py global (optional: the pool it names)
    connection_string,\* mcp_postgres_server.py global
    pools,            \* every pool asyncpg.create_pool has returned
    job,              \* executor thread -> the command it runs
    gw_ops,           \* commands the gateway has been given so far
    tool_call         \* a provider server's handle_call_tool: the call it serves

chat_vars == <<env_missing, mcp_tools, mcp_sessions, user_mcp_tools, history, sent,
               notice, pc, turn, calls_made, model_calls, request_tools, response, idx, tool_name,
               tool_outputs, invoked, turn_result, reg_ops>>

gw_vars == <<pg_env, connection_pool, connection_string, pools, job, gw_ops>>

prov_vars == <<tool_call>>

vars == <<chat_vars, gw_vars, prov_vars>>

\* ---------------------------------------------------------------- bounds
MaxTurns == 2      \* user messages per session
MaxCalls == 2      \* tool-call requests per session, over all batches
MaxHookRuns == 2   \* runs of the connect / disconnect hooks beside the message handler
MaxRegOps == 4     \* runs of the connect / disconnect hooks when only they run
MaxGatewayOps == 3 \* commands given to the database gateway
MaxToolCalls == 2  \* tool calls a provider server is given

\* ---------------------------------------------------------------- values
None == <<>>
Some(x) == <<x>>

Providers == {"A", "B"}
ToolNames == {"foo", "bar"}

\* a provider's tool: the description is optional, "bar" comes without one
Descriptor(n) ==
    [name |-> n,
     description |-> IF n = "bar" THEN None ELSE Some(<<"about ", n>>),
     inputSchema |-> <<"schema of ", n>>]

\* what a provider's session.list_tools() may return
ToolLists == { <<Descriptor("foo")>>, <<Descriptor("foo"), Descriptor("bar")>> }

RequiredVars == {"AZURE_OPENAI_ENDPOINT", "AZURE_OPENAI_API_KEY",
                 "AZURE_OPENAI_DEPLOYMENT_NAME"}

\* the environments a session is started in
EnvChoices == { {}, {"AZURE_OPENAI_API_KEY"}, RequiredVars }

SYSTEM_PROMPT == <<"SYSTEM_PROMPT">>

\* ---------------------------------------------------------------- dicts
Range(s) == { s[i] : i \in 1..Len(s) }

DictKeys(d) == { d[i].key : i \in 1..Len(d) }

DictHas(d, k) == k \in DictKeys(d)

DictGet(d, k) == (CHOOSE i \in 1..Len(d) : d[i].key = k) \* only when DictHas(d, k)

DictVal(d, k) == d[DictGet(d, k)].val

\* d[k] = d[k] + v for an existing key: the lists are merged
DictMerge(d, k, v) ==
    IF DictHas(d, k)
    THEN [i \in 1..Len(d) |-> IF d[i].key = k THEN [key |-> k, val |-> d[i].val \o v] ELSE d[i]]
    ELSE Append(d, [key |-> k, val |-> v])

\* a set that takes the key out and puts it back last
DictSetLast(d, k, v) == Append(SelectSeq(d, LAMBDA e : e.key # k), [key |-> k, val |-> v])

\* d[k] = v: an existing key keeps its position, a new key goes last
DictSet(d, k, v) ==
    IF DictHas(d, k)
    THEN [i \in 1..Len(d) |-> IF d[i].key = k THEN [key |-> k, val |-> v] ELSE d[i]]
    ELSE Append(d, [key |-> k, val |-> v])

\* a del that was forgotten
DictKeep(d, k) == d

\* del d[k]
DictDel(d, k) == SelectSeq(d, LAMBDA e : e.key # k)

\* ---------------------------------------------------------------- texts
UserTexts == { <<"hello">> }
ReplyTexts == { <<"reply">> }

\* str(e) of the exceptions the handler can meet
JsonError == <<"Expecting property name enclosed in double quotes">>
ModelError == <<"model call failed">>
ClientError == <<"Missing credentials">>
TransportError == <<"connection closed">>
ListToolsError == <<"list_tools failed">>

\* function.arguments strings the model may produce, and json.loads on them
ArgStrings == {"{}", "{bad"}
JsonDecodes(s) == s = "{}"

\* tool_call.id: the model numbers its requests; unique within a session
CallId(t, k) == <<"call_", t, k>>

\* messages shown to the observed session
Msg(author, content) == [author |-> author, content |-> content]

\* ---------------------------------------------------------------- start_chat
\* cl.user_session.set("history", [system prompt]); then the error message
\* naming the missing variables, or the greeting
StartMessage(missing) ==
    IF missing # {}
    THEN Msg(None, <<"**Error:** Missing Azure OpenAI environment variables: ",
                     missing, ". Please ensure they are in your .env file.">>)
    ELSE Msg(None, <<"Hello!">>)

\* a start_chat that tests the variables first and returns before the
\* history is set
ChatStartChecksFirst ==
    /\ env_missing \in EnvChoices
    /\ mcp_tools = <<>>
    /\ mcp_sessions = <<>>
    /\ user_mcp_tools = <<>>
    /\ history = IF env_missing # {} THEN <<>>
                 ELSE << [role |-> "system", content |-> SYSTEM_PROMPT] >>
    /\ sent = <<>>
    /\ notice = StartMessage(env_missing)
    /\ pc = "idle"
    /\ turn = 0
    /\ calls_made = 0
    /\ model_calls = 0
    /\ request_tools = None
    /\ response = None
    /\ idx = 0
    /\ tool_name = None
    /\ tool_outputs = <<>>
    /\ invoked = <<>>
    /\ turn_result = "none"
    /\ reg_ops = 0

ChatStart ==
    /\ env_missing \in EnvChoices
    /\ mcp_tools = <<>>
    /\ mcp_sessions = <<>>
    /\ user_mcp_tools = <<>>
    /\ history = << [role |-> "system", content |-> SYSTEM_PROMPT] >>
    /\ sent = <<>>
    /\ notice = StartMessage(env_missing)
    /\ pc = "idle"
    /\ turn = 0
    /\ calls_made = 0
    /\ model_calls = 0
    /\ request_tools = None
    /\ response = None
    /\ idx = 0
    /\ tool_name = None
    /\ tool_outputs = <<>>
    /\ invoked = <<>>
    /\ turn_result = "none"
    /\ reg_ops = 0

\* ---------------------------------------------------------------- registry hooks
ToolInfo(d) == [name |-> d.name, description |-> d.description, input_schema |-> d.inputSchema]

ToolInfos(listed) == [i \in 1..Len(listed) |-> ToolInfo(listed[i])]

ToolNamesOf(tools) == [i \in 1..Len(tools) |-> tools[i].name]

\* the ClientSession object handed to the hook: a fresh object per connection
NewSession == <<"session", reg_ops + 1>>

ConnectedMessage(p, tools) ==
    Msg(None, <<"Successfully connected to **", p, "** MCP server!">> \o ToolNamesOf(tools))

\* on_mcp_connect, list_tools succeeded.  own: the hook runs in the observed chat
\* session; otherwise in another chat session of the same process, whose
\* user_session and UI are its own.
ConnectOk(own, p, listed) ==
    /\ reg_ops < MaxRegOps
    /\ reg_ops' = reg_ops + 1
    /\ mcp_tools' = DictSet(mcp_tools, p, ToolInfos(listed))
    /\ mcp_sessions' = DictSet(mcp_sessions, p, NewSession)
    /\ user_mcp_tools' = IF own THEN DictSet(user_mcp_tools, p, ToolInfos(listed))
                                ELSE user_mcp_tools
    /\ notice' = IF own THEN ConnectedMessage(p, ToolInfos(listed)) ELSE notice
    /\ UNCHANGED <<env_missing, calls_made, history, sent, pc, turn, model_calls, request_tools, response,
                   idx, tool_name, tool_outputs, invoked, turn_result>>

\* lines 98-100
ConnectErrorMessage(p) ==
    Msg(None, <<"Error connecting to MCP server ", p, ": ">> \o ListToolsError)

\* the hook had it entered the provider before listing its tools
ConnectFailsEntered(own, p) ==
    /\ reg_ops < MaxRegOps
    /\ reg_ops' = reg_ops + 1
    /\ mcp_tools' = DictSet(mcp_tools, p, <<>>)
    /\ mcp_sessions' = DictSet(mcp_sessions, p, NewSession)
    /\ user_mcp_tools' = IF own THEN DictSet(user_mcp_tools, p, <<>>) ELSE user_mcp_tools
    /\ notice' = IF own THEN ConnectErrorMessage(p) ELSE notice
    /\ UNCHANGED <<env_missing, calls_made, history, sent, pc, turn, model_calls, request_tools, response,
                   idx, tool_name, tool_outputs, invoked, turn_result>>

\* on_mcp_connect, list_tools raised: the except block notifies the user
ConnectFails(own, p) ==
    /\ reg_ops < MaxRegOps
    /\ reg_ops' = reg_ops + 1
    /\ notice' = IF own THEN ConnectErrorMessage(p) ELSE notice
    /\ UNCHANGED <<env_missing, calls_made, mcp_tools, mcp_sessions, user_mcp_tools, history, sent, pc, turn,
                   model_calls, request_tools, response, idx, tool_name, tool_outputs,
                   invoked, turn_result>>

on_mcp_connect ==
    \E own \in BOOLEAN, p \in Providers :
        \/ \E listed \in ToolLists : ConnectOk(own, p, listed)
        \/ ConnectFails(own, p)

DisconnectedMessage(p) == Msg(None, <<"Disconnected from **", p, "** MCP server.">>)

\* the hook without its "in" tests: del on a missing key raises KeyError out of
\* the hook before anything is removed or sent
DisconnectUnguarded(own, p) ==
    /\ reg_ops < MaxRegOps
    /\ reg_ops' = reg_ops + 1
    /\ IF DictHas(mcp_tools, p) /\ DictHas(mcp_sessions, p)
          /\ (own => DictHas(user_mcp_tools, p))
       THEN /\ mcp_tools' = DictDel(mcp_tools, p)
            /\ mcp_sessions' = DictDel(mcp_sessions, p)
            /\ user_mcp_tools' = IF own THEN DictDel(user_mcp_tools, p) ELSE user_mcp_tools
            /\ notice' = IF own THEN DisconnectedMessage(p) ELSE notice
       ELSE UNCHANGED <<mcp_tools, mcp_sessions, user_mcp_tools, notice>>
    /\ UNCHANGED <<env_missing, calls_made, history, sent, pc, turn, model_calls, request_tools, response,
                   idx, tool_name, tool_outputs, invoked, turn_result>>

\* the hook clearing the two global maps only
DisconnectGlobalOnly(own, p) ==
    /\ reg_ops < MaxRegOps
    /\ reg_ops' = reg_ops + 1
    /\ mcp_tools' = IF DictHas(mcp_tools, p) THEN DictDel(mcp_tools, p) ELSE mcp_tools
    /\ mcp_sessions' = IF DictHas(mcp_sessions, p) THEN DictDel(mcp_sessions, p)
                                                   ELSE mcp_sessions
    /\ notice' = IF own THEN DisconnectedMessage(p) ELSE notice
    /\ UNCHANGED <<env_missing, calls_made, user_mcp_tools, history, sent, pc, turn, model_calls,
                   request_tools, response, idx, tool_name, tool_outputs, invoked,
                   turn_result>>

\* a disconnect that leaves the session object registered
DisconnectKeepsSession(own, p) ==
    /\ reg_ops < MaxRegOps
    /\ reg_ops' = reg_ops + 1
    /\ mcp_tools' = IF DictHas(mcp_tools, p) THEN DictDel(mcp_tools, p) ELSE mcp_tools
    /\ user_mcp_tools' = IF own /\ DictHas(user_mcp_tools, p)
                         THEN DictDel(user_mcp_tools, p)
                         ELSE user_mcp_tools
    /\ notice' = IF own THEN DisconnectedMessage(p) ELSE notice
    /\ UNCHANGED <<env_missing, calls_made, history, sent, pc, turn, model_calls, request_tools, response,
                   idx, tool_name, tool_outputs, invoked, turn_result, mcp_sessions>>

Disconnect(own, p) ==
    /\ reg_ops < MaxRegOps
    /\ reg_ops' = reg_ops + 1
    /\ mcp_tools' = IF DictHas(mcp_tools, p) THEN DictDel(mcp_tools, p) ELSE mcp_tools
    /\ mcp_sessions' = IF DictHas(mcp_sessions, p) THEN DictDel(mcp_sessions, p)
                                                   ELSE mcp_sessions
    /\ user_mcp_tools' = IF own /\ DictHas(user_mcp_tools, p)
                         THEN DictDel(user_mcp_tools, p)
                         ELSE user_mcp_tools
    /\ notice' = IF own THEN DisconnectedMessage(p) ELSE notice
    /\ UNCHANGED <<env_missing, calls_made, history, sent, pc, turn, model_calls, request_tools, response,
                   idx, tool_name, tool_outputs, invoked, turn_result>>

on_mcp_disconnect == \E own \in BOOLEAN, p \in Providers : Disconnect(own, p)

\* find_mcp_for_tool: the first provider, in dict order, one of whose tools has
\* the name; None when there is none
FindIn(tools_map, name) ==
    LET hits == { i \in 1..Len(tools_map) :
                    \E j \in 1..Len(tools_map[i].val) : tools_map[i].val[j].name = name }
    IN IF hits = {} THEN None
       ELSE Some(tools_map[CHOOSE i \in hits : \A k \in hits : i <= k].key)

find_mcp_for_tool(name) == FindIn(mcp_tools, name)

\* ---------------------------------------------------------------- main
\* lines 201-214: one function declaration per tool of the session's providers,
\* in dict order
\* a declaration that fills in an empty text for a missing description
DeclarationDefaulted(tool) ==
    [type |-> "function",
     function |-> [name |-> tool.name,
                   description |-> IF tool.description = None THEN Some(<<>>)
                                                              ELSE tool.description,
                   parameters |-> tool.input_schema]]

Declaration(tool) ==
    [type |-> "function",
     function |-> [name |-> tool.name, description |-> tool.description,
                   parameters |-> tool.input_schema]]

RECURSIVE OpenAITools(_)
OpenAITools(tools_map) ==
    IF tools_map = <<>> THEN <<>>
    ELSE [i \in 1..Len(Head(tools_map).val) |-> Declaration(Head(tools_map).val[i])]
         \o OpenAITools(Tail(tools_map))

\* lines 225-227: "tools" is passed only when the list is not empty
RequestTools(tools_map) ==
    IF OpenAITools(tools_map) # <<>> THEN Some(OpenAITools(tools_map)) ELSE None

\* the except block of main, lines 301-304
ErrorMessage(e) == Msg(None, <<"An error occurred: ">> \o e \o <<"Full error: Traceback ">> \o e)

\* a handler without the except block: the exception leaves main
HandlerRaises(shown, e) ==
    /\ sent' = shown
    /\ pc' = "idle"
    /\ turn_result' = "raised"

HandlerExcept(shown, e) ==
    /\ sent' = Append(shown, ErrorMessage(e))
    /\ pc' = "idle"
    /\ turn_result' = "error"

\* lines 190-191
UserEntry(text) == [role |-> "user", content |-> text]

\* a handler that starts every turn from the system prompt alone
TurnHistoryRebuilt(h, text) == <<h[1], UserEntry(text)>>

TurnHistory(h, text) == Append(h, UserEntry(text))

\* AsyncAzureOpenAI(...) raises when the endpoint or the credential is not
\* configured: lines 194-196 run inside the try
ClientFails == env_missing \cap {"AZURE_OPENAI_ENDPOINT", "AZURE_OPENAI_API_KEY"} # {}

UserMessageClientFails(text) ==
    /\ pc = "idle"
    /\ turn < MaxTurns
    /\ ClientFails
    /\ turn' = turn + 1
    /\ history' = TurnHistory(history, text)
    /\ model_calls' = 0
    /\ response' = None
    /\ idx' = 0
    /\ tool_name' = None
    /\ tool_outputs' = <<>>
    /\ invoked' = <<>>
    /\ HandlerExcept(<<>>, ClientError)
    /\ UNCHANGED <<env_missing, calls_made, notice, mcp_tools, mcp_sessions, user_mcp_tools, request_tools,
                   reg_ops>>

\* lines 190-229, up to the await of chat.completions.create
UserMessageCallsModel(text) ==
    /\ pc = "idle"
    /\ turn < MaxTurns
    /\ ~ClientFails
    /\ turn' = turn + 1
    /\ history' = TurnHistory(history, text)
    /\ request_tools' = RequestTools(user_mcp_tools)
    /\ model_calls' = 1
    /\ response' = None
    /\ idx' = 0
    /\ tool_name' = None
    /\ tool_outputs' = <<>>
    /\ invoked' = <<>>
    /\ sent' = <<>>
    /\ pc' = "model"
    /\ turn_result' = "running"
    /\ UNCHANGED <<env_missing, calls_made, notice, mcp_tools, mcp_sessions, user_mcp_tools, reg_ops>>

\* chat.completions.create raised
ModelRaises ==
    /\ pc = "model"
    /\ HandlerExcept(sent, ModelError)
    /\ UNCHANGED <<env_missing, calls_made, notice, mcp_tools, mcp_sessions, user_mcp_tools, history, turn,
                   model_calls, request_tools, response, idx, tool_name, tool_outputs,
                   invoked, reg_ops>>

\* response_message.model_dump()
ModelDump(content, tool_calls) ==
    [role |-> "assistant", content |-> content, tool_calls |-> tool_calls]

\* a reply that is shown and not kept in the history
ModelRepliesUnrecorded(text, tool_calls) ==
    /\ pc = "model"
    /\ tool_calls \in {None, Some(<<>>)}
    /\ response' = Some(ModelDump(Some(text), tool_calls))
    /\ sent' = Append(sent, Msg(None, text))
    /\ pc' = "idle"
    /\ turn_result' = "ok"
    /\ UNCHANGED <<env_missing, calls_made, notice, mcp_tools, mcp_sessions, user_mcp_tools, turn, model_calls,
                   request_tools, idx, tool_name, tool_outputs, invoked, reg_ops, history>>

\* lines 296-299: tool_calls is None or empty
ModelReplies(text, tool_calls) ==
    /\ pc = "model"
    /\ tool_calls \in {None, Some(<<>>)}
    /\ response' = Some(ModelDump(Some(text), tool_calls))
    /\ history' = Append(history, ModelDump(Some(text), tool_calls))
    /\ sent' = Append(sent, Msg(None, text))
    /\ pc' = "idle"
    /\ turn_result' = "ok"
    /\ UNCHANGED <<env_missing, calls_made, notice, mcp_tools, mcp_sessions, user_mcp_tools, turn, model_calls,
                   request_tools, idx, tool_name, tool_outputs, invoked, reg_ops>>

\* the tool-call batches a model response may carry: ids unique within the batch
Batches ==
    UNION { { [i \in 1..n |-> [id |-> CallId(turn, i), name |-> na[i].name,
                               arguments |-> na[i].arguments]] :
                na \in [1..n -> [name : ToolNames, arguments : ArgStrings]] } :
            n \in 1..(MaxCalls - calls_made) }

\* a handler that shows the content of the response before it dispatches
ModelRequestsToolsShowsContent(content, calls) ==
    /\ pc = "model"
    /\ calls # <<>>
    /\ calls_made' = calls_made + Len(calls)
    /\ response' = Some(ModelDump(content, Some(calls)))
    /\ history' = Append(history, ModelDump(content, Some(calls)))
    /\ sent' = IF content = None THEN sent ELSE Append(sent, Msg(None, content[1]))
    /\ tool_outputs' = <<>>
    /\ idx' = 1
    /\ pc' = "loop"
    /\ UNCHANGED <<env_missing, notice, mcp_tools, mcp_sessions, user_mcp_tools, turn,
                   model_calls, request_tools, tool_name, invoked, turn_result, reg_ops>>

\* lines 234-239
ModelRequestsTools(content, calls) ==
    /\ pc = "model"
    /\ calls # <<>>
    /\ calls_made' = calls_made + Len(calls)
    /\ response' = Some(ModelDump(content, Some(calls)))
    /\ history' = Append(history, ModelDump(content, Some(calls)))
    /\ tool_outputs' = <<>>
    /\ idx' = 1
    /\ pc' = "loop"
    /\ UNCHANGED <<env_missing, notice, mcp_tools, mcp_sessions, user_mcp_tools, sent, turn,
                   model_calls, request_tools, tool_name, invoked, turn_result, reg_ops>>

\* response_message.tool_calls of the current turn, as the loop reads it
Calls ==
    IF response = None \/ response[1].tool_calls = None THEN <<>>
    ELSE response[1].tool_calls[1]

\* call_mcp_tool up to the await of session.call_tool, lines 162-168
Resolve(name) ==
    LET mcp_name == find_mcp_for_tool(name)
    IN IF mcp_name = None
       THEN [ok |-> FALSE, error |-> <<"No MCP connection found for tool: ", name>>]
       ELSE IF ~DictHas(mcp_sessions, mcp_name[1])
            THEN [ok |-> FALSE,
                  error |-> <<"No active session for MCP connection: ", mcp_name[1]>>]
            ELSE [ok |-> TRUE, session |-> DictVal(mcp_sessions, mcp_name[1]),
                  provider |-> mcp_name[1]]

Output(id, text) == [tool_call_id |-> id, output |-> text]

\* an except block that drops str(e)
FailureOutputBare(id, e) == Output(id, <<"Error executing tool">>)

\* lines 253-258
FailureOutput(id, e) == Output(id, <<"Error executing tool: ">> \o e)

\* line 242: json.loads raises outside the per-call try
LoopJsonFails ==
    /\ pc = "loop"
    /\ idx <= Len(Calls)
    /\ ~JsonDecodes(Calls[idx].arguments)
    /\ tool_name' = Some(Calls[idx].name)
    /\ HandlerExcept(sent, JsonError)
    /\ UNCHANGED <<env_missing, calls_made, notice, mcp_tools, mcp_sessions, user_mcp_tools, history, turn,
                   model_calls, request_tools, response, idx, tool_outputs, invoked,
                   reg_ops>>

\* a loop that keeps asking for the provider of a name nobody declares
LoopResolveRetries ==
    /\ pc = "loop"
    /\ idx <= Len(Calls)
    /\ JsonDecodes(Calls[idx].arguments)
    /\ ~Resolve(Calls[idx].name).ok
    /\ tool_name' = Some(Calls[idx].name)
    /\ UNCHANGED <<env_missing, calls_made, notice, mcp_tools, mcp_sessions, user_mcp_tools, history, sent, pc,
                   turn, model_calls, request_tools, response, invoked, turn_result,
                   reg_ops, idx, tool_outputs>>

\* lines 241-258 when call_mcp_tool raises before contacting a session
LoopResolveFails ==
    /\ pc = "loop"
    /\ idx <= Len(Calls)
    /\ JsonDecodes(Calls[idx].arguments)
    /\ ~Resolve(Calls[idx].name).ok
    /\ tool_name' = Some(Calls[idx].name)
    /\ tool_outputs' = Append(tool_outputs,
                              FailureOutput(Calls[idx].id, Resolve(Calls[idx].name).error))
    /\ idx' = idx + 1
    /\ UNCHANGED <<env_missing, calls_made, notice, mcp_tools, mcp_sessions, user_mcp_tools, history, sent, pc,
                   turn, model_calls, request_tools, response, invoked, turn_result,
                   reg_ops>>

\* the call handed to the session and the loop going on without awaiting it
LoopInvokesUnawaited ==
    /\ pc = "loop"
    /\ idx <= Len(Calls)
    /\ JsonDecodes(Calls[idx].arguments)
    /\ Resolve(Calls[idx].name).ok
    /\ tool_name' = Some(Calls[idx].name)
    /\ invoked' = Append(invoked, [idx |-> idx, name |-> Calls[idx].name,
                                   session |-> Resolve(Calls[idx].name).session,
                                   provider |-> Resolve(Calls[idx].name).provider])
    /\ idx' = idx + 1
    /\ UNCHANGED <<env_missing, calls_made, notice, mcp_tools, mcp_sessions, user_mcp_tools, history, sent, turn,
                   model_calls, request_tools, response, pc, tool_outputs, turn_result,
                   reg_ops>>

\* lines 241-247 and 162-171: the call is handed to the provider session
LoopInvokes ==
    /\ pc = "loop"
    /\ idx <= Len(Calls)
    /\ JsonDecodes(Calls[idx].arguments)
    /\ Resolve(Calls[idx].name).ok
    /\ tool_name' = Some(Calls[idx].name)
    /\ invoked' = Append(invoked, [idx |-> idx, name |-> Calls[idx].name,
                                   session |-> Resolve(Calls[idx].name).session,
                                   provider |-> Resolve(Calls[idx].name).provider])
    /\ pc' = "call"
    /\ UNCHANGED <<env_missing, calls_made, notice, mcp_tools, mcp_sessions, user_mcp_tools, history, sent, turn,
                   model_calls, request_tools, response, idx, tool_outputs, turn_result,
                   reg_ops>>

\* what awaiting session.call_tool can end in
CallOutcomes == {"text", "empty", "raise"}

ResultText(name) == <<"result of ", name>>

\* lines 171-176 and 248-258
CallOutput(outcome, id, name) ==
    CASE outcome = "text" -> Output(id, ResultText(name))
      [] outcome = "empty" -> Output(id, <<"Tool executed, but returned no content.">>)
      [] outcome = "raise" -> FailureOutput(id, TransportError)

\* a return that looks the provider up again and gives the call up when the
\* provider is no longer registered
CallReturnsRegistered(outcome) ==
    /\ pc = "call"
    /\ tool_outputs' = Append(tool_outputs,
          IF DictHas(mcp_sessions, invoked[Len(invoked)].provider)
          THEN CallOutput(outcome, Calls[idx].id, Calls[idx].name)
          ELSE FailureOutput(Calls[idx].id, <<"No active session for MCP connection: ",
                                              invoked[Len(invoked)].provider>>))
    /\ idx' = idx + 1
    /\ pc' = "loop"
    /\ UNCHANGED <<env_missing, calls_made, notice, mcp_tools, mcp_sessions, user_mcp_tools, history, sent, turn,
                   model_calls, request_tools, response, tool_name, invoked, turn_result,
                   reg_ops>>

CallReturns(outcome) ==
    /\ pc = "call"
    /\ tool_outputs' = Append(tool_outputs,
                              CallOutput(outcome, Calls[idx].id, Calls[idx].name))
    /\ idx' = idx + 1
    /\ pc' = "loop"
    /\ UNCHANGED <<env_missing, calls_made, notice, mcp_tools, mcp_sessions, user_mcp_tools, history, sent, turn,
                   model_calls, request_tools, response, tool_name, invoked, turn_result,
                   reg_ops>>

\* line 271
SurfacedMessage(output) == Msg(tool_name, output.output)

\* the entry filed under the outcome text instead of the request's id
ToolEntryMislinked(output) ==
    [role |-> "tool", tool_call_id |-> output.output, content |-> output.output]

\* lines 272-276
ToolEntry(output) ==
    [role |-> "tool", tool_call_id |-> output.tool_call_id, content |-> output.output]

\* the commented-out indirect policy, lines 281-295: the outcomes go back to the
\* model for a summary
SurfaceSummarized ==
    /\ pc = "loop"
    /\ idx > Len(Calls)
    /\ history' = history \o [i \in 1..Len(tool_outputs) |-> ToolEntry(tool_outputs[i])]
    /\ model_calls' = model_calls + 1
    /\ pc' = "model"
    /\ UNCHANGED <<env_missing, calls_made, notice, mcp_tools, mcp_sessions, user_mcp_tools,
                   sent, turn, request_tools, response, idx, tool_name, tool_outputs, invoked,
                   turn_result, reg_ops>>

\* lines 270-276, after the dispatch loop has run through every request
Surface ==
    /\ pc = "loop"
    /\ idx > Len(Calls)
    /\ sent' = sent \o [i \in 1..Len(tool_outputs) |-> SurfacedMessage(tool_outputs[i])]
    /\ history' = history \o [i \in 1..Len(tool_outputs) |-> ToolEntry(tool_outputs[i])]
    /\ pc' = "idle"
    /\ turn_result' = "ok"
    /\ UNCHANGED <<env_missing, calls_made, notice, mcp_tools, mcp_sessions, user_mcp_tools, turn, model_calls,
                   request_tools, response, idx, tool_name, tool_outputs, invoked, reg_ops>>

main ==
    \/ \E text \in UserTexts : UserMessageClientFails(text)
    \/ \E text \in UserTexts : UserMessageCallsModel(text)
    \/ ModelRaises
    \/ \E text \in ReplyTexts, tool_calls \in {None, Some(<<>>)} : ModelReplies(text, tool_calls)
    \/ \E content \in {None} \cup {Some(t) : t \in ReplyTexts}, calls \in Batches :
           ModelRequestsTools(content, calls)
    \/ LoopJsonFails
    \/ LoopResolveFails
    \/ LoopInvokes
    \/ \E outcome \in CallOutcomes : CallReturns(outcome)
    \/ Surface

\* ---------------------------------------------------------------- gateway
\* src/mcp_postgres_server.py.  Strings the code takes apart (table names,
\* queries, connection strings) are sequences of characters or pieces.

Workers == {1, 2}

PUBLIC == <<"p", "u", "b", "l", "i", "c">>

\* the tables of the database: a name may hold any character (quoted identifiers)
DbTables ==
    { [schema |-> PUBLIC, table |-> <<"t">>, rows |-> 3],
      [schema |-> PUBLIC, table |-> <<"t", ";", "x">>, rows |-> 1] }

\* table_name arguments of query_table
TableNames ==
    { Some(<<"t">>), Some(PUBLIC \o <<".", "t">>), Some(<<"g">>),
      Some(<<"t", ";", "x">>), Some(<<"g", ";", "x">>), None }

\* limit / offset arguments of query_table
Pages == { [limit |-> 5, offset |-> 0], [limit |-> 2, offset |-> 2] }

\* query arguments of execute_query
Queries ==
    { Some(<<"S", "E", "L", "E", "C", "T", " ", "1">>),
      Some(<<" ", "s", "e", "l", "e", "c", "t", " ", "1", "\n">>),
      Some(<<"D", "E", "L", "E", "T", "E", " ", "t">>),
      Some(<<"x", "S", "E", "L", "E", "C", "T">>),
      Some(<<"S", "E", "L", "E", "C">>),
      Some(<<>>),
      None }

\* rows a SELECT may return
QueryRowChoices == {0, 2}

DsnArg == <<"postgresql://", "u2", ":", "pw2", "@", "h2", ":", "5432", "/", "d2">>

\* connection_string arguments of connect_db
DsnArgs == { None, Some(<<>>), Some(DsnArg) }

NoEnv ==
    [DATABASE_URL |-> None, POSTGRES_HOST |-> None, POSTGRES_PORT |-> None,
     POSTGRES_DB |-> None, POSTGRES_USER |-> None, POSTGRES_PASSWORD |-> None]

\* the environments the server is started in
PgEnvChoices ==
    { NoEnv,
      [NoEnv EXCEPT !.DATABASE_URL = Some(<<"postgresql://", "u", ":", "pw", "@", "h", "/", "d">>),
                    !.POSTGRES_DB = Some(<<"d">>), !.POSTGRES_USER = Some(<<"u">>),
                    !.POSTGRES_PASSWORD = Some(<<"s3", "@", "cr3t">>)],
      [NoEnv EXCEPT !.DATABASE_URL = Some(<<>>),
                    !.POSTGRES_DB = Some(<<"d">>), !.POSTGRES_USER = Some(<<"u">>),
                    !.POSTGRES_PASSWORD = Some(<<"s3", "@", "cr3t">>)],
      [NoEnv EXCEPT !.POSTGRES_DB = Some(<<"d">>), !.POSTGRES_HOST = Some(<<"h">>)] }

\* ---------------------------------------------------------------- str methods
Whitespace == {" ", "\t", "\n", "\r"}

RECURSIVE LStrip(_)
LStrip(s) == IF s # <<>> /\ Head(s) \in Whitespace THEN LStrip(Tail(s)) ELSE s

RECURSIVE RStrip(_)
RStrip(s) ==
    IF s # <<>> /\ s[Len(s)] \in Whitespace THEN RStrip(SubSeq(s, 1, Len(s) - 1)) ELSE s

\* str.strip()
Strip(s) == RStrip(LStrip(s))

LowerLetters == <<"a", "b", "c", "d", "e", "f", "g", "h", "i", "j", "k", "l", "m",
                  "n", "o", "p", "q", "r", "s", "t", "u", "v", "w", "x", "y", "z">>
UpperLetters == <<"A", "B", "C", "D", "E", "F", "G", "H", "I", "J", "K", "L", "M",
                  "N", "O", "P", "Q", "R", "S", "T", "U", "V", "W", "X", "Y", "Z">>

UpperChar(c) ==
    IF \E k \in 1..Len(LowerLetters) : LowerLetters[k] = c
    THEN UpperLetters[CHOOSE k \in 1..Len(LowerLetters) : LowerLetters[k] = c]
    ELSE c

\* the string as it is
UpperKept(s) == s

\* str.upper()
Upper(s) == [i \in 1..Len(s) |-> UpperChar(s[i])]

\* str.startswith(prefix)
StartsWith(s, prefix) == Len(s) >= Len(prefix) /\ SubSeq(s, 1, Len(prefix)) = prefix

SELECT == <<"S", "E", "L", "E", "C", "T">>

\* line 216 negated
PassesSelectCheck(query) == StartsWith(Upper(query), SELECT)

\* the index of the first sep in s, 0 when there is none
FirstIndex(s, sep) ==
    IF \E i \in 1..Len(s) : s[i] = sep
    THEN CHOOSE i \in 1..Len(s) : s[i] = sep /\ \A k \in 1..(i - 1) : s[k] # sep
    ELSE 0

\* str.split(sep): the parts between the separators
RECURSIVE Split(_, _)
Split(s, sep) ==
    IF FirstIndex(s, sep) = 0 THEN <<s>>
    ELSE <<SubSeq(s, 1, FirstIndex(s, sep) - 1)>>
         \o Split(SubSeq(s, FirstIndex(s, sep) + 1, Len(s)), sep)

\* lines 161-165: schema.table, or the public schema
SchemaOf(table_name) ==
    IF FirstIndex(table_name, ".") # 0
    THEN SubSeq(table_name, 1, FirstIndex(table_name, ".") - 1)
    ELSE PUBLIC

TableOf(table_name) ==
    IF FirstIndex(table_name, ".") # 0
    THEN SubSeq(table_name, FirstIndex(table_name, ".") + 1, Len(table_name))
    ELSE table_name

\* ---------------------------------------------------------------- statements
TestSql == <<"SELECT version()">>

ExistsSql ==
    <<"SELECT EXISTS (SELECT 1 FROM information_schema.tables WHERE table_schema = $1 AND table_name = $2)">>

ColumnsSql ==
    <<"SELECT column_name, data_type FROM information_schema.columns WHERE table_schema = $1 AND table_name = $2 ORDER BY ordinal_position">>

\* lines 122-130
TablesSql ==
    <<"SELECT schemaname, tablename, tableowner FROM pg_tables WHERE schemaname NOT IN ('pg_catalog', 'information_schema') ORDER BY schemaname, tablename">>

\* lines 252-262
SchemaColumnsSql ==
    <<"SELECT column_name, data_type, is_nullable, column_default, character_maximum_length FROM information_schema.columns WHERE table_schema = $1 AND table_name = $2 ORDER BY ordinal_position">>

\* lines 271-282
PrimaryKeysSql == <<"SELECT a.attname as column_name FROM pg_index i ... WHERE n.nspname = $1 AND c.relname = $2 AND i.indisprimary">>

\* lines 285-301
ForeignKeysSql == <<"SELECT kcu.column_name, ... WHERE tc.constraint_type = 'FOREIGN KEY' AND tc.table_schema = $1 AND tc.table_name = $2">>

\* line 191: the f-string
DataSql(schema, table) ==
    <<"SELECT * FROM ">> \o schema \o <<".">> \o table \o <<" LIMIT $1 OFFSET $2">>

Digits == {"0", "1", "2", "3", "4", "5", "6", "7", "8", "9"}

\* line 191 puts the name into the statement as it is: the server reads it as
\* the same identifier only when it needs no quoting
Unquoted(ident) ==
    /\ ident # <<>>
    /\ ident[1] \notin Digits
    /\ \A i \in 1..Len(ident) : ident[i] \in Range(LowerLetters) \cup Digits \cup {"_"}

\* str(e) of what the server raises for a statement it cannot prepare
StatementError == <<"cannot insert multiple commands into a prepared statement">>

\* the EXISTS query of lines 169-174
TableExists(schema, table) == \E t \in DbTables : t.schema = schema /\ t.table = table

RowsOf(schema, table) ==
    (CHOOSE t \in DbTables : t.schema = schema /\ t.table = table).rows

Min(a, b) == IF a <= b THEN a ELSE b
Max(a, b) == IF a >= b THEN a ELSE b

\* what SELECT * ... LIMIT limit OFFSET offset returns of a table's rows
RowsReturned(rows, limit, offset) == Min(limit, Max(0, rows - offset))

\* ---------------------------------------------------------------- results
ErrorResult(e) == [success |-> FALSE, error |-> e, row_count |-> 0, info |-> <<>>]

OkResult(n, info) == [success |-> TRUE, error |-> <<>>, row_count |-> n, info |-> info]

NotConnected == ErrorResult(<<"Not connected to database. Please use connect_db first.">>)

\* one run of _execute_postgres_command_async on an executor thread
IdleJob ==
    [pc |-> "idle", action |-> "none", arg |-> None, conn_string |-> <<>>, table_name |-> <<>>,
     page |-> [limit |-> 0, offset |-> 0], query |-> <<>>, pool |-> 0,
     issued |-> <<>>, acquired |-> 0, result |-> None]

\* a command with the argument its action reads: connection_string, table_name or query
Started(action, arg) == [IdleJob EXCEPT !.action = action, !.arg = arg]

Finish(j, r) == [j EXCEPT !.pc = "done", !.result = Some(r)]

\* the executor has a thread free for the call
Free(w) == job[w].pc \in {"idle", "done"}

Truthy(opt) == opt # None /\ opt[1] # <<>>

OrDefault(opt, default) == IF opt = None THEN default ELSE opt[1]

\* str(x) of an optional value inside an f-string
Formatted(opt) == IF opt = None THEN <<"None">> ELSE opt[1]

\* the environment asked before the argument
ResolveEnvFirst(arg) ==
    IF Truthy(pg_env.DATABASE_URL) THEN pg_env.DATABASE_URL
    ELSE IF Truthy(arg) THEN arg
    ELSE None

\* lines 68-85
ResolveConnString(arg) ==
    IF Truthy(arg) THEN arg
    ELSE IF Truthy(pg_env.DATABASE_URL) THEN pg_env.DATABASE_URL
    ELSE IF Truthy(pg_env.POSTGRES_DB) /\ Truthy(pg_env.POSTGRES_USER)
         THEN Some(<<"postgresql://">> \o pg_env.POSTGRES_USER[1] \o <<":">>
                   \o Formatted(pg_env.POSTGRES_PASSWORD) \o <<"@">>
                   \o OrDefault(pg_env.POSTGRES_HOST, <<"localhost">>) \o <<":">>
                   \o OrDefault(pg_env.POSTGRES_PORT, <<"5432">>) \o <<"/">>
                   \o pg_env.POSTGRES_DB[1])
         ELSE None

\* line 112
Display(conn_string) ==
    IF FirstIndex(conn_string, "@") # 0 THEN Split(conn_string, "@")[2] ELSE conn_string

GatewayStart ==
    /\ connection_pool = None
    /\ connection_string = None
    /\ pools = <<>>
    /\ job = [w \in Workers |-> IdleJob]
    /\ gw_ops = 0

\* ---------------------------------------------------------------- connect_db
\* lines 67-90
ConnectBegin(w, arg) ==
    /\ Free(w)
    /\ gw_ops < MaxGatewayOps
    /\ gw_ops' = gw_ops + 1
    /\ job' = [job EXCEPT ![w] =
                 IF ResolveConnString(arg) = None
                 THEN Finish(Started("connect_db", arg),
                             ErrorResult(<<"No connection string provided and no DATABASE_URL in environment">>))
                 ELSE [Started("connect_db", arg) EXCEPT !.pc = "close",
                                                    !.conn_string = ResolveConnString(arg)[1]]]
    /\ UNCHANGED <<pg_env, connection_pool, connection_string, pools>>

\* lines 92-94: the pool the global names now is closed
ConnectClose(w) ==
    /\ job[w].pc = "close"
    /\ pools' = IF connection_pool # None
                THEN [pools EXCEPT ![connection_pool[1]].closed = TRUE]
                ELSE pools
    /\ job' = [job EXCEPT ![w].pc = "create"]
    /\ UNCHANGED <<pg_env, connection_pool, connection_string, gw_ops>>

\* str(e) of what asyncpg.create_pool raises
CreatePoolError == <<"could not connect to server">>

\* create_pool outside the try: its exception leaves the command with no result
ConnectCreateUncaught(w, ok) ==
    /\ job[w].pc = "create"
    /\ IF ok
       THEN /\ pools' = Append(pools, [closed |-> FALSE, held |-> 0])
            /\ connection_pool' = Some(Len(pools) + 1)
            /\ connection_string' = Some(job[w].conn_string)
            /\ job' = [job EXCEPT ![w].pc = "acquire"]
       ELSE /\ job' = [job EXCEPT ![w].pc = "done"]
            /\ UNCHANGED <<pools, connection_pool, connection_string>>
    /\ UNCHANGED <<pg_env, gw_ops>>

\* lines 96-102, and create_pool raising into the except of line 338
ConnectCreate(w, ok) ==
    /\ job[w].pc = "create"
    /\ IF ok
       THEN /\ pools' = Append(pools, [closed |-> FALSE, held |-> 0])
            /\ connection_pool' = Some(Len(pools) + 1)
            /\ connection_string' = Some(job[w].conn_string)
            /\ job' = [job EXCEPT ![w].pc = "acquire"]
       ELSE /\ job' = [job EXCEPT ![w] = Finish(job[w], ErrorResult(CreatePoolError))]
            /\ UNCHANGED <<pools, connection_pool, connection_string>>
    /\ UNCHANGED <<pg_env, gw_ops>>

\* ---------------------------------------------------------------- query_table
\* lines 149-165
QueryTableBegin(w, name, page) ==
    /\ Free(w)
    /\ gw_ops < MaxGatewayOps
    /\ gw_ops' = gw_ops + 1
    /\ job' = [job EXCEPT ![w] =
                 IF connection_pool = None
                 THEN Finish(Started("query_table", name), NotConnected)
                 ELSE IF name = None
                 THEN Finish(Started("query_table", name),
                             ErrorResult(<<"argument of type 'NoneType' is not iterable">>))
                 ELSE [Started("query_table", name) EXCEPT !.pc = "acquire",
                                                     !.table_name = name[1],
                                                     !.page = page]]
    /\ UNCHANGED <<pg_env, connection_pool, connection_string, pools>>

\* ---------------------------------------------------------------- debug_env
\* os.getenv(name, 'NOT SET')
ShownVar(opt) == OrDefault(opt, <<"NOT SET">>)

\* 'SET' if os.getenv(name) else 'NOT SET'
ShownSet(opt) == IF Truthy(opt) THEN <<"SET">> ELSE <<"NOT SET">>

\* lines 51-65
DebugEnv(w) ==
    /\ Free(w)
    /\ gw_ops < MaxGatewayOps
    /\ gw_ops' = gw_ops + 1
    /\ job' = [job EXCEPT ![w] =
                 Finish(Started("debug_env", None),
                        OkResult(0, ShownVar(pg_env.POSTGRES_HOST)
                                    \o ShownVar(pg_env.POSTGRES_PORT)
                                    \o ShownVar(pg_env.POSTGRES_DB)
                                    \o ShownVar(pg_env.POSTGRES_USER)
                                    \o ShownSet(pg_env.POSTGRES_PASSWORD)
                                    \o ShownSet(pg_env.DATABASE_URL)))]
    /\ UNCHANGED <<pg_env, connection_pool, connection_string, pools>>

\* ---------------------------------------------------------------- list_tables
\* lines 115-120
ListTablesBegin(w) ==
    /\ Free(w)
    /\ gw_ops < MaxGatewayOps
    /\ gw_ops' = gw_ops + 1
    /\ job' = [job EXCEPT ![w] =
                 IF connection_pool = None
                 THEN Finish(Started("list_tables", None), NotConnected)
                 ELSE [Started("list_tables", None) EXCEPT !.pc = "acquire"]]
    /\ UNCHANGED <<pg_env, connection_pool, connection_string, pools>>

\* ---------------------------------------------------------------- get_table_schema
\* lines 234-248
GetTableSchemaBegin(w, name) ==
    /\ Free(w)
    /\ gw_ops < MaxGatewayOps
    /\ gw_ops' = gw_ops + 1
    /\ job' = [job EXCEPT ![w] =
                 IF connection_pool = None
                 THEN Finish(Started("get_table_schema", name), NotConnected)
                 ELSE IF name = None
                 THEN Finish(Started("get_table_schema", name),
                             ErrorResult(<<"argument of type 'NoneType' is not iterable">>))
                 ELSE [Started("get_table_schema", name) EXCEPT !.pc = "acquire",
                                                                !.table_name = name[1]]]
    /\ UNCHANGED <<pg_env, connection_pool, connection_string, pools>>

\* ---------------------------------------------------------------- execute_query
\* lines 206-220
ExecuteQueryBegin(w, query) ==
    /\ Free(w)
    /\ gw_ops < MaxGatewayOps
    /\ gw_ops' = gw_ops + 1
    /\ job' = [job EXCEPT ![w] =
                 IF connection_pool = None
                 THEN Finish(Started("execute_query", query), NotConnected)
                 ELSE IF query = None
                 THEN Finish(Started("execute_query", query),
                             ErrorResult(<<"'NoneType' object has no attribute 'strip'">>))
                 ELSE IF ~PassesSelectCheck(Strip(query[1]))
                 THEN Finish([Started("execute_query", query) EXCEPT !.query = Strip(query[1])],
                             ErrorResult(<<"Only SELECT queries are allowed for safety">>))
                 ELSE [Started("execute_query", query) EXCEPT !.pc = "acquire",
                                                       !.query = Strip(query[1])]]
    /\ UNCHANGED <<pg_env, connection_pool, connection_string, pools>>

\* ---------------------------------------------------------------- pooled connection
\* connection_pool.acquire() of lines 105, 167, 222: the global is read here.
\* A closed pool raises; a pool made under the event loop of an earlier
\* asyncio.run may raise as well.  Either way line 338 answers.
Acquire(w, ok) ==
    /\ job[w].pc = "acquire"
    /\ IF pools[connection_pool[1]].closed
       THEN /\ ~ok
            /\ job' = [job EXCEPT ![w] = Finish(job[w], ErrorResult(<<"pool is closed">>))]
            /\ UNCHANGED pools
       ELSE IF ~ok
       THEN /\ job' = [job EXCEPT ![w] = Finish(job[w], ErrorResult(<<"cannot perform operation: another operation is in progress">>))]
            /\ UNCHANGED pools
       ELSE /\ pools' = [pools EXCEPT ![connection_pool[1]].held = @ + 1]
            /\ job' = [job EXCEPT ![w].pc = "run", ![w].pool = connection_pool[1],
                                  ![w].acquired = @ + 1]
    /\ UNCHANGED <<pg_env, connection_pool, connection_string, gw_ops>>

\* a block that keeps its connection when it is left
ReleasedNever(w) == pools

\* leaving the async with block
Released(w) == [pools EXCEPT ![job[w].pool].held = @ - 1]

\* a get_table_schema that runs its three catalog queries before it looks at
\* the columns
BodyKeysFirst(j, rows) ==
    CASE j.action = "connect_db" ->
           [issued |-> <<TestSql>>, result |-> OkResult(0, Display(j.conn_string))]
      [] j.action = "query_table" ->
           IF ~TableExists(SchemaOf(j.table_name), TableOf(j.table_name))
           THEN [issued |-> <<ExistsSql>>,
                 result |-> ErrorResult(<<"Table '">> \o j.table_name \o <<"' not found">>)]
           ELSE IF ~(Unquoted(SchemaOf(j.table_name)) /\ Unquoted(TableOf(j.table_name)))
           THEN [issued |-> <<ExistsSql, ColumnsSql,
                              DataSql(SchemaOf(j.table_name), TableOf(j.table_name))>>,
                 result |-> ErrorResult(StatementError)]
           ELSE [issued |-> <<ExistsSql, ColumnsSql,
                              DataSql(SchemaOf(j.table_name), TableOf(j.table_name))>>,
                 result |-> OkResult(RowsReturned(RowsOf(SchemaOf(j.table_name),
                                                         TableOf(j.table_name)),
                                                  j.page.limit, j.page.offset),
                                     j.table_name)]
      [] j.action = "execute_query" ->
           [issued |-> <<j.query>>, result |-> OkResult(rows, <<>>)]
      [] j.action = "list_tables" ->
           [issued |-> <<TablesSql>>, result |-> OkResult(Cardinality(DbTables), <<>>)]
      [] j.action = "get_table_schema" ->
           [issued |-> <<SchemaColumnsSql, PrimaryKeysSql, ForeignKeysSql>>,
            result |-> IF ~TableExists(SchemaOf(j.table_name), TableOf(j.table_name))
                       THEN ErrorResult(<<"Table '">> \o j.table_name \o <<"' not found">>)
                       ELSE OkResult(0, j.table_name)]

\* what the body of the async with block issues and returns
Body(j, rows) ==
    CASE j.action = "connect_db" ->
           [issued |-> <<TestSql>>, result |-> OkResult(0, Display(j.conn_string))]
      [] j.action = "query_table" ->
           IF ~TableExists(SchemaOf(j.table_name), TableOf(j.table_name))
           THEN [issued |-> <<ExistsSql>>,
                 result |-> ErrorResult(<<"Table '">> \o j.table_name \o <<"' not found">>)]
           ELSE IF ~(Unquoted(SchemaOf(j.table_name)) /\ Unquoted(TableOf(j.table_name)))
           THEN [issued |-> <<ExistsSql, ColumnsSql,
                              DataSql(SchemaOf(j.table_name), TableOf(j.table_name))>>,
                 result |-> ErrorResult(StatementError)]
           ELSE [issued |-> <<ExistsSql, ColumnsSql,
                              DataSql(SchemaOf(j.table_name), TableOf(j.table_name))>>,
                 result |-> OkResult(RowsReturned(RowsOf(SchemaOf(j.table_name),
                                                         TableOf(j.table_name)),
                                                  j.page.limit, j.page.offset),
                                     j.table_name)]
      [] j.action = "execute_query" ->
           [issued |-> <<j.query>>, result |-> OkResult(rows, <<>>)]
      [] j.action = "list_tables" ->
           [issued |-> <<TablesSql>>, result |-> OkResult(Cardinality(DbTables), <<>>)]
      [] j.action = "get_table_schema" ->
           IF ~TableExists(SchemaOf(j.table_name), TableOf(j.table_name))
           THEN [issued |-> <<SchemaColumnsSql>>,
                 result |-> ErrorResult(<<"Table '">> \o j.table_name \o <<"' not found">>)]
           ELSE [issued |-> <<SchemaColumnsSql, PrimaryKeysSql, ForeignKeysSql>>,
                 result |-> OkResult(0, j.table_name)]

\* lines 105-113, 121-130, 167-204, 222-232, 250-301
Run(w, rows) ==
    /\ job[w].pc = "run"
    /\ job[w].action = "execute_query" \/ rows = 0
    /\ pools' = Released(w)
    /\ job' = [job EXCEPT ![w] = Finish([job[w] EXCEPT !.issued = Body(job[w], rows).issued,
                                                        !.pool = 0],
                                        Body(job[w], rows).result)]
    /\ UNCHANGED <<pg_env, connection_pool, connection_string, gw_ops>>

\* str(e) of what a fetch on the connection raises
FetchError == <<"connection was closed in the middle of operation">>

\* the first statement of the block raises: the block is left, line 338 answers
RunRaises(w) ==
    /\ job[w].pc = "run"
    /\ pools' = Released(w)
    /\ job' = [job EXCEPT ![w] = Finish([job[w] EXCEPT !.issued = <<Body(job[w], 0).issued[1]>>,
                                                        !.pool = 0],
                                        ErrorResult(FetchError))]
    /\ UNCHANGED <<pg_env, connection_pool, connection_string, gw_ops>>

\* ---------------------------------------------------------------- provider servers
\* handle_call_tool of src/mcp_postgres_server.py and of src/mcp_server.py, and
\* the workers they call.  A result dict is a record; its values are kept
\* where a handler branches on them or reads into them.

PgEnvKeys == {"POSTGRES_HOST", "POSTGRES_PORT", "POSTGRES_DB", "POSTGRES_USER",
              "POSTGRES_PASSWORD", "DATABASE_URL"}

OmEnvKeys == {"OPENMETADATA_HOST", "OPENMETADATA_JWT_TOKEN", "OPENMETADATA_USERNAME",
              "OPENMETADATA_PASSWORD"}

\* the except blocks of the workers, mcp_postgres_server.py 338-345 and
\* mcp_server.py 198-205
ExceptResult(action) ==
    [success |-> FALSE, error |-> <<"connection refused">>, traceback |-> <<"Traceback">>,
     action |-> action]

\* async_postgres_call 355-360 and async_openmetadata_call 217-222
AsyncFailed(action) ==
    [success |-> FALSE,
     error |-> <<"Async call failed: ", "cannot schedule new futures after shutdown">>,
     action |-> action]

\* the last else of both workers
UnknownAction(action) == [success |-> FALSE, error |-> <<"Unknown action: ", action>>]

\* the dict of the 'if not connection_pool' returns
NotConnectedResult ==
    [success |-> FALSE, error |-> <<"Not connected to database. Please use connect_db first.">>]

\* what execute_postgres_command returns for an action
PgWorker(action) ==
    { [success |-> FALSE,
       error |-> <<"asyncpg library is not installed. Please install it with: pip install asyncpg">>,
       action |-> action] }
    \cup
    (CASE action = "debug_env" ->
            { [success |-> TRUE, action |-> action,
               env_vars |-> [k \in PgEnvKeys |-> "NOT SET"],
               cwd |-> "/srv", env_file_exists |-> FALSE] }
       [] action = "connect_db" ->
            { [success |-> FALSE,
               error |-> <<"No connection string provided and no DATABASE_URL in environment">>],
              [success |-> TRUE, action |-> action, version |-> "PostgreSQL 16",
               connection_string |-> "h/d"],
              ExceptResult(action) }
       [] action = "list_tables" ->
            { NotConnectedResult,
              [success |-> TRUE, action |-> action, count |-> 0, tables |-> <<>>],
              [success |-> TRUE, action |-> action, count |-> 1,
               tables |-> << [schema |-> "public", name |-> "t", full_name |-> "public.t",
                              owner |-> "u"] >>],
              ExceptResult(action) }
       [] action = "query_table" ->
            { NotConnectedResult,
              [success |-> FALSE, error |-> <<"Table '", "g", "' not found">>],
              [success |-> TRUE, action |-> action, table |-> "t",
               columns |-> << [name |-> "id", type |-> "integer"] >>,
               row_count |-> 0, data |-> <<>>],
              ExceptResult(action) }
       [] action = "execute_query" ->
            { NotConnectedResult,
              [success |-> FALSE, error |-> <<"Only SELECT queries are allowed for safety">>],
              [success |-> TRUE, action |-> action, row_count |-> 0, data |-> <<>>],
              ExceptResult(action) }
       [] action = "get_table_schema" ->
            { NotConnectedResult,
              [success |-> FALSE, error |-> <<"Table '", "g", "' not found">>],
              [success |-> TRUE, action |-> action, table |-> "t",
               columns |-> << [name |-> "id", type |-> "integer", nullable |-> FALSE,
                               default |-> "", max_length |-> "",
                               is_primary_key |-> TRUE] >>],
              ExceptResult(action) }
       [] OTHER -> { UnknownAction(action) })

\* what load_and_call_openmetadata returns for an action other than get_table
OmWorker(action) ==
    CASE action = "debug_env" ->
            { [success |-> TRUE, action |-> action,
               env_vars |-> [k \in OmEnvKeys |-> "NOT SET"],
               cwd |-> "/srv", env_file_exists |-> FALSE],
              ExceptResult(action) }
      [] action = "test_connection" ->
            { [success |-> TRUE, action |-> action, host |-> "h", client_methods |-> 7],
              ExceptResult(action) }
      [] action = "list_tables" ->
            { [success |-> TRUE, action |-> action, count |-> 0, tables |-> <<>>],
              [success |-> TRUE, action |-> action, count |-> 1,
               tables |-> << [name |-> "t", fqn |-> "s.d.public.t", description |-> "d",
                              id |-> "0f0f0f0f-0000"] >>],
              [success |-> FALSE, error |-> <<"Unexpected response format: ", "list">>,
               raw_data |-> "[]"],
              ExceptResult(action) }
      [] OTHER -> { UnknownAction(action), ExceptResult(action) }

\* the tools of the two servers: the action the handler passes to the worker,
\* the places of the result it subscripts when the call succeeded (a "*"
\* stands for every item of a list), and the openings of its two texts
Tools ==
    { [server |-> "postgres", name |-> "debug_postgres_env", action |-> "debug_env",
       reads |-> {<<"cwd">>, <<"env_file_exists">>} \cup {<<"env_vars", k>> : k \in PgEnvKeys},
       ok |-> "**PostgreSQL Environment Debug:**", failed |-> "**Debug failed:** "],
      [server |-> "postgres", name |-> "connect_postgres", action |-> "connect_db",
       reads |-> {<<"version">>},
       ok |-> "**PostgreSQL Connection Successful!**", failed |-> "**Connection Failed**"],
      [server |-> "postgres", name |-> "list_postgres_tables", action |-> "list_tables",
       reads |-> {<<"count">>, <<"tables", "*", "schema">>, <<"tables", "*", "name">>,
                  <<"tables", "*", "owner">>},
       ok |-> "**Found ", failed |-> "**Failed to list tables**"],
      [server |-> "postgres", name |-> "query_postgres_table", action |-> "query_table",
       reads |-> {<<"row_count">>, <<"data">>, <<"columns", "*", "name">>,
                  <<"columns", "*", "type">>},
       ok |-> "**Query Results from '", failed |-> "**Query failed**"],
      [server |-> "postgres", name |-> "execute_postgres_query", action |-> "execute_query",
       reads |-> {<<"row_count">>, <<"data">>},
       ok |-> "**Query Executed Successfully**", failed |-> "**Query failed**"],
      [server |-> "postgres", name |-> "get_postgres_schema", action |-> "get_table_schema",
       reads |-> {<<"columns", "*", "name">>, <<"columns", "*", "type">>},
       ok |-> "**Schema for table '", failed |-> "**Failed to get schema**"],
      [server |-> "openmetadata", name |-> "debug_env", action |-> "debug_env",
       reads |-> {<<"cwd">>, <<"env_file_exists">>} \cup {<<"env_vars", k>> : k \in OmEnvKeys},
       ok |-> "**Environment Debug Information:**", failed |-> "**Debug failed:** "],
      [server |-> "openmetadata", name |-> "test_om_connection", action |-> "test_connection",
       reads |-> {<<"host">>, <<"client_methods">>},
       ok |-> "**OpenMetadata Connection Test Successful!**",
       failed |-> "**Connection Test Failed**"],
      [server |-> "openmetadata", name |-> "list_om_tables", action |-> "list_tables",
       reads |-> {<<"count">>, <<"tables", "*", "name">>, <<"tables", "*", "fqn">>,
                  <<"tables", "*", "description">>, <<"tables", "*", "id">>},
       ok |-> "**Found ", failed |-> "**Failed to list tables**"],
      [server |-> "openmetadata", name |-> "get_om_table", action |-> "get_table",
       reads |-> {<<"method_used">>, <<"table", "name">>, <<"table", "fqn">>,
                  <<"table", "id">>, <<"table", "description">>, <<"table", "columns">>,
                  <<"table", "column_count">>},
       ok |-> "**Table Details: ", failed |-> "**Failed to get table '"] }

\* names a client may ask a server for: its tools and names it does not have
CallNames == { tool.name : tool \in Tools } \cup {"drop_database"}

IsTool(server, name) == \E tool \in Tools : tool.server = server /\ tool.name = name

ToolOf(server, name) == CHOOSE tool \in Tools : tool.server = server /\ tool.name = name

\* result[a], result[a][b] or result[a][i][b] for every item i can be
\* evaluated: no KeyError
Subscripts(result, path) ==
    /\ path[1] \in DOMAIN result
    /\ Len(path) = 2 => path[2] \in DOMAIN result[path[1]]
    /\ Len(path) = 3 =>
          \A i \in 1..Len(result[path[1]]) : path[3] \in DOMAIN result[path[1]][i]

TextContent(text) == [type |-> "text", text |-> text]

\* ', '.join(attempts)
RECURSIVE Joined(_)
Joined(texts) ==
    IF texts = <<>> THEN <<>>
    ELSE texts[1] \o (IF Len(texts) > 1 THEN <<", ">> ELSE <<>>) \o Joined(Tail(texts))

\* the text of a tool's reply: result.get('attempts') and the tests
\* "'raw_data' in result", "'attempts' in result" read a key only when it is there
ReplyText(tool, result) ==
    IF result.success
    THEN <<tool.ok>> \o (IF "attempts" \in DOMAIN result THEN Joined(result.attempts) ELSE <<>>)
    ELSE <<tool.failed>> \o result.error
         \o (IF tool.name = "list_om_tables" /\ "raw_data" \in DOMAIN result
             THEN <<result.raw_data>> ELSE <<>>)
         \o (IF tool.name = "get_om_table" /\ "attempts" \in DOMAIN result
             THEN Joined(result.attempts) ELSE <<>>)

\* a handler that names the failed action in its text
AnswerNamesAction(server, name, result) ==
    LET tool == ToolOf(server, name)
        needed == {<<"success">>} \cup (IF "success" \in DOMAIN result /\ result.success
                                         THEN tool.reads ELSE {<<"error">>, <<"action">>})
    IN IF \A path \in needed : Subscripts(result, path)
       THEN [raised |-> FALSE, content |-> <<TextContent(ReplyText(tool, result))>>]
       ELSE [raised |-> TRUE, content |-> <<>>]

\* handle_call_tool once the worker has answered: what it returns, or that a
\* subscript of the result raised
Answer(server, name, result) ==
    LET tool == ToolOf(server, name)
        needed == {<<"success">>} \cup (IF "success" \in DOMAIN result /\ result.success
                                         THEN tool.reads ELSE {<<"error">>})
    IN IF \A path \in needed : Subscripts(result, path)
       THEN [raised |-> FALSE, content |-> <<TextContent(ReplyText(tool, result))>>]
       ELSE [raised |-> TRUE, content |-> <<>>]

\* the last else of both handlers
UnknownTool(name) == [raised |-> FALSE, content |-> <<TextContent(<<"Unknown tool: ", name>>)>>]

\* ---- the lookup of get_table, mcp_server.py 94-183

\* the three names the lookup builds from a name without a dot
FqnAttempts(table_name) ==
    << <<"fivedigit.ekom24.public.">> \o table_name,
       <<"public.">> \o table_name,
       <<"ekom24.public.">> \o table_name >>

\* what one call of the catalogue client can do: return a table, return
\* something empty (None, {}), or raise
ClientOutcomes == {"data", "empty", "raise"}

\* table names a caller passes: none, a bare name, a dotted name
OmTableNames == {None, Some(<<"t">>), Some(<<"s", ".", "t">>)}

HasDot(table_name) == \E i \in 1..Len(table_name) : table_name[i] = "."

\* a tool call nobody has made yet
IdleCall ==
    [pc |-> "idle", via |-> "none", server |-> "none", name |-> "none", action |-> "none",
     table_name |-> None, k |-> 0, table_data |-> "None", method_used |-> None,
     attempts |-> <<>>, client_calls |-> <<>>, result |-> None, reply |-> <<>>,
     raised |-> FALSE, served |-> 0]

ProviderStart == tool_call = IdleCall

\* a call begins: the fields of the one before are forgotten
Begin(via, server, name, action, table_name) ==
    [IdleCall EXCEPT !.pc = "running", !.via = via, !.server = server, !.name = name,
                     !.action = action, !.table_name = table_name,
                     !.served = tool_call.served + 1]

\* the worker has returned result to the handler, which answers
Returned(call, result) ==
    LET answer == Answer(call.server, call.name, result)
    IN [call EXCEPT !.pc = "done", !.result = Some(result),
                    !.reply = answer.content, !.raised = answer.raised]

\* lines 145-183: the result built from what the lookup found; reading a
\* table that is not the dict expected raises into the except of line 200
Concluded(call) ==
    IF call.table_data = "data"
    THEN { [success |-> TRUE, action |-> "get_table", method_used |-> call.method_used[1],
            attempts |-> call.attempts,
            table |-> [name |-> "t", fqn |-> "s.d.public.t", description |-> "d",
                       id |-> "0f0f0f0f-0000", columns |-> <<>>, column_count |-> 0]],
           ExceptResult("get_table") }
    ELSE { [success |-> FALSE, error |-> <<"No data returned">>,
            table_name |-> call.table_name, method_used |-> call.method_used,
            attempts |-> call.attempts] }

\* lines 136-143: the except of the inner try
NotFound(call, said) ==
    [success |-> FALSE,
     error |-> <<"Could not find table with any method. Last error: ", said>>,
     table_name |-> call.table_name,
     attempts |-> Append(call.attempts, <<"get_table by ID", " - failed: ", said>>)]

CanBegin == tool_call.pc \in {"idle", "done"} /\ tool_call.served < MaxToolCalls

\* a name the server has no tool for: the last else of handle_call_tool
CallUnknownTool(server, name) ==
    /\ CanBegin
    /\ ~IsTool(server, name)
    /\ tool_call' = [Begin("handler", server, name, "none", None) EXCEPT
                        !.pc = "done",
                        !.reply = UnknownTool(name).content,
                        !.raised = UnknownTool(name).raised]

\* every tool but get_om_table: one call of the worker, then the text
CallTool(server, name) ==
    /\ CanBegin
    /\ IsTool(server, name)
    /\ ToolOf(server, name).action # "get_table"
    /\ LET action == ToolOf(server, name).action
           results == (IF server = "postgres" THEN PgWorker(action) ELSE OmWorker(action))
                      \cup {AsyncFailed(action)}
       IN \E result \in results :
            tool_call' = Returned(Begin("handler", server, name, action, None), result)

\* execute_postgres_command or load_and_call_openmetadata called with an
\* action, get_table apart
CallWorker(server, action) ==
    /\ CanBegin
    /\ action # "get_table"
    /\ \E result \in (IF server = "postgres" THEN PgWorker(action) ELSE OmWorker(action)) :
         tool_call' = [Begin("worker", server, "none", action, None) EXCEPT
                          !.pc = "done", !.result = Some(result)]

\* get_om_table, up to the first call of the client; the creation of the
\* client can raise, and so can the executor
CallGetTable(table_name) ==
    /\ CanBegin
    /\ LET call == Begin("handler", "openmetadata", "get_om_table", "get_table", table_name)
       IN \/ \E result \in {ExceptResult("get_table"), AsyncFailed("get_table")} :
               tool_call' = Returned(call, result)
          \/ tool_call' = [call EXCEPT !.pc = "exact"]

\* the call is recorded as the client saw it
Called(call, method, argument, outcome) ==
    Append(call.client_calls, [method |-> method, argument |-> argument, outcome |-> outcome])

\* lines 102-112: the exact name
LookupExact(outcome) ==
    /\ tool_call.pc = "exact"
    /\ LET call == [tool_call EXCEPT
                       !.client_calls = Called(tool_call, "get_table_by_name",
                                               tool_call.table_name, outcome)]
       IN IF outcome # "raise"
          THEN LET found == [call EXCEPT
                               !.table_data = outcome,
                               !.method_used = Some(<<"get_table_by_name (exact)">>),
                               !.attempts = Append(call.attempts,
                                                   <<"get_table_by_name", " - success">>)]
               IN \E result \in Concluded(found) : tool_call' = Returned(found, result)
          ELSE LET failed == [call EXCEPT
                                !.attempts = Append(call.attempts,
                                    <<"get_table_by_name", " - failed: ", "not found">>)]
               IN IF failed.table_name = None
                  THEN \* "'.' not in None" is a TypeError, caught at line 136
                       tool_call' = Returned(failed, NotFound(failed, "not iterable"))
                  ELSE IF HasDot(failed.table_name[1])
                  THEN tool_call' = [failed EXCEPT !.pc = "id"]
                  ELSE tool_call' = [failed EXCEPT !.pc = "fqn", !.k = 1]

\* lines 120-131: one round of the loop over the three names
LookupFqn(outcome) ==
    /\ tool_call.pc = "fqn"
    /\ LET fqn == FqnAttempts(tool_call.table_name[1])[tool_call.k]
           call == [tool_call EXCEPT
                       !.client_calls = Called(tool_call, "get_table_by_name",
                                               Some(fqn), outcome)]
       IN IF outcome # "raise"
          THEN LET found == [call EXCEPT
                               !.table_data = outcome,
                               !.method_used =
                                   Some(<<"get_table_by_name (FQN: ">> \o fqn \o <<")">>),
                               !.attempts = Append(call.attempts,
                                                   <<"FQN ">> \o fqn \o <<" - success">>)]
               IN IF outcome = "data"
                  THEN \E result \in Concluded(found) : tool_call' = Returned(found, result)
                  ELSE tool_call' = [found EXCEPT !.pc = "id"]
          ELSE LET failed == [call EXCEPT
                                !.attempts = Append(call.attempts,
                                                    <<"FQN ">> \o fqn \o <<" - failed">>)]
               IN IF failed.k < 3
                  THEN tool_call' = [failed EXCEPT !.k = failed.k + 1]
                  ELSE tool_call' = [failed EXCEPT !.pc = "id"]

\* lines 131-143: the lookup by id
LookupById(outcome) ==
    /\ tool_call.pc = "id"
    /\ LET call == [tool_call EXCEPT
                       !.client_calls = Called(tool_call, "get_table",
                                               tool_call.table_name, outcome)]
       IN IF outcome # "raise"
          THEN LET found == [call EXCEPT
                               !.table_data = outcome,
                               !.method_used = Some(<<"get_table (ID)">>),
                               !.attempts = Append(call.attempts,
                                                   <<"get_table by ID", " - success">>)]
               IN \E result \in Concluded(found) : tool_call' = Returned(found, result)
          ELSE tool_call' = Returned(call, NotFound(call, "not found"))

\* actions a caller asks a worker for: the ones it has and one it has not
WorkerActions == {"debug_env", "connect_db", "list_tables", "query_table", "execute_query",
                  "get_table_schema", "test_connection", "vacuum"}

\* ---------------------------------------------------------------- specifications
\* app.py and mcp_postgres_server.py run as two processes: each is followed
\* from its start with the other one at rest.
Init ==
    /\ ChatStart
    /\ GatewayStart
    /\ pg_env = NoEnv
    /\ ProviderStart

\* the message handler of one chat session, with the hooks of any chat session
\* of the process running between its awaits
Next ==
    \/ reg_ops < MaxHookRuns /\ on_mcp_connect /\ UNCHANGED <<gw_vars, prov_vars>>
    \/ reg_ops < MaxHookRuns /\ on_mcp_disconnect /\ UNCHANGED <<gw_vars, prov_vars>>
    \/ main /\ UNCHANGED <<gw_vars, prov_vars>>

Spec == Init /\ [][Next]_vars

\* the steps of main after the user message has been taken: the model call
\* and each provider call return or raise, the statements between them run
HandlerProgress ==
    \/ ModelRaises
    \/ \E text \in ReplyTexts, tool_calls \in {None, Some(<<>>)} : ModelReplies(text, tool_calls)
    \/ \E content \in {None} \cup {Some(t) : t \in ReplyTexts}, calls \in Batches :
           ModelRequestsTools(content, calls)
    \/ LoopJsonFails
    \/ LoopResolveFails
    \/ LoopInvokes
    \/ \E outcome \in CallOutcomes : CallReturns(outcome)
    \/ Surface

\* the message handler when every await of main comes back
LiveSpec == Init /\ [][Next]_vars /\ WF_vars(HandlerProgress /\ UNCHANGED <<gw_vars, prov_vars>>)

\* the registry under the hooks alone
RegistryNext ==
    \/ on_mcp_connect /\ UNCHANGED <<gw_vars, prov_vars>>
    \/ on_mcp_disconnect /\ UNCHANGED <<gw_vars, prov_vars>>

RegistrySpec == Init /\ [][RegistryNext]_vars

\* the gateway process taking commands from a connected chat process
GatewayInit ==
    /\ ChatStart
    /\ env_missing = {}
    /\ GatewayStart
    /\ pg_env \in PgEnvChoices
    /\ ProviderStart

\* _execute_postgres_command_async on the two threads of the executor
GatewayNext ==
    \E w \in Workers :
        \/ (\E arg \in DsnArgs : ConnectBegin(w, arg)) /\ UNCHANGED <<chat_vars, prov_vars>>
        \/ ConnectClose(w) /\ UNCHANGED <<chat_vars, prov_vars>>
        \/ (\E ok \in BOOLEAN : ConnectCreate(w, ok)) /\ UNCHANGED <<chat_vars, prov_vars>>
        \/ (\E name \in TableNames, page \in Pages : QueryTableBegin(w, name, page))
           /\ UNCHANGED <<chat_vars, prov_vars>>
        \/ (\E query \in Queries : ExecuteQueryBegin(w, query)) /\ UNCHANGED <<chat_vars, prov_vars>>
        \/ DebugEnv(w) /\ UNCHANGED <<chat_vars, prov_vars>>
        \/ ListTablesBegin(w) /\ UNCHANGED <<chat_vars, prov_vars>>
        \/ (\E name \in TableNames : GetTableSchemaBegin(w, name)) /\ UNCHANGED <<chat_vars, prov_vars>>
        \/ (\E ok \in BOOLEAN : Acquire(w, ok)) /\ UNCHANGED <<chat_vars, prov_vars>>
        \/ (\E rows \in QueryRowChoices : Run(w, rows)) /\ UNCHANGED <<chat_vars, prov_vars>>
        \/ RunRaises(w) /\ UNCHANGED <<chat_vars, prov_vars>>

GatewaySpec == GatewayInit /\ [][GatewayNext]_vars

\* the two provider servers taking tool calls, one at a time
ProviderNext ==
    \/ (\E server \in {"postgres", "openmetadata"}, name \in CallNames : CallUnknownTool(server, name))
       /\ UNCHANGED <<chat_vars, gw_vars>>
    \/ (\E server \in {"postgres", "openmetadata"}, name \in CallNames : CallTool(server, name))
       /\ UNCHANGED <<chat_vars, gw_vars>>
    \/ (\E server \in {"postgres", "openmetadata"}, action \in WorkerActions : CallWorker(server, action))
       /\ UNCHANGED <<chat_vars, gw_vars>>
    \/ (\E table_name \in OmTableNames : CallGetTable(table_name))
       /\ UNCHANGED <<chat_vars, gw_vars>>
    \/ (\E outcome \in ClientOutcomes : LookupExact(outcome)) /\ UNCHANGED <<chat_vars, gw_vars>>
    \/ (\E outcome \in ClientOutcomes : LookupFqn(outcome)) /\ UNCHANGED <<chat_vars, gw_vars>>
    \/ (\E outcome \in ClientOutcomes : LookupById(outcome)) /\ UNCHANGED <<chat_vars, gw_vars>>

ProviderSpec == Init /\ [][ProviderNext]_vars

\* ---------------------------------------------------------------- claims on app.py
\* the handler has finished a turn whose model response carried tool calls
BatchTurnOver == pc = "idle" /\ Calls # <<>>

\* this step is a step of main
MainStepped == <<pc, idx>>' # <<pc, idx>>

\* C1: for every model response with N >= 1 tool-call requests, main appends
\* exactly N role="tool" messages, the i-th carrying the id of the i-th request,
\* whichever calls failed and for whatever reason
C1_OneToolMessagePerRequest ==
    BatchTurnOver =>
        /\ Len(history) > Len(Calls)
        /\ history[Len(history) - Len(Calls)] = response[1]
        /\ \A i \in 1..Len(Calls) :
               LET m == history[Len(history) - Len(Calls) + i]
               IN m.role = "tool" /\ m.tool_call_id = Calls[i].id

\* C2: the history only grows; every state's history extends the previous one
C2_HistoryAppendOnly ==
    [][ /\ Len(history') >= Len(history)
        /\ SubSeq(history', 1, Len(history)) = history ]_vars

C2_Witness ==
    /\ turn = 2
    /\ pc = "idle"
    /\ Len(history) >= 5
    /\ \E i \in 1..Len(history) : history[i].role = "tool"

\* the names provider p has in the tool map
DeclaredBy(tools_map, p) ==
    IF DictHas(tools_map, p)
    THEN { DictVal(tools_map, p)[j].name : j \in 1..Len(DictVal(tools_map, p)) }
    ELSE {}

\* a provider other than p declares the name
DeclaredElsewhere(tools_map, p, name) ==
    \E q \in DictKeys(tools_map) \ {p} : name \in DeclaredBy(tools_map, q)

\* C3 as stated: after on_mcp_connect registers p with descriptor d,
\* find_mcp_for_tool(d.name) is p; after on_mcp_disconnect(p) it is None;
\* in every registry state, other providers registered or not
C3_ResolveFollowsRegistration ==
    [][ \A own \in BOOLEAN, p \in Providers :
          /\ \A listed \in ToolLists :
                 ConnectOk(own, p, listed) =>
                     \A i \in 1..Len(listed) :
                         find_mcp_for_tool(listed[i].name)' = Some(p)
          /\ Disconnect(own, p) =>
                 \A name \in DeclaredBy(mcp_tools, p) :
                     find_mcp_for_tool(name)' = None ]_vars

\* C3 amended: the same, for the names no other registered provider declares
C3_ResolveFollowsRegistrationUnlessShared ==
    [][ \A own \in BOOLEAN, p \in Providers :
          /\ \A listed \in ToolLists :
                 ConnectOk(own, p, listed) =>
                     \A i \in 1..Len(listed) :
                         ~DeclaredElsewhere(mcp_tools', p, listed[i].name) =>
                             find_mcp_for_tool(listed[i].name)' = Some(p)
          /\ Disconnect(own, p) =>
                 \A name \in DeclaredBy(mcp_tools, p) :
                     ~DeclaredElsewhere(mcp_tools', p, name) =>
                         find_mcp_for_tool(name)' = None ]_vars

\* A has been disconnected while B stayed registered: the name only A declared
\* resolves to nothing, the name B declares resolves to B
C3_Witness ==
    /\ reg_ops = 3
    /\ notice = Msg(None, <<"Disconnected from **", "A", "** MCP server.">>)
    /\ DictKeys(mcp_tools) = {"B"}
    /\ find_mcp_for_tool("foo") = Some("B")
    /\ find_mcp_for_tool("bar") = None

\* the text of a failure outcome carries the error text after its prefix
CarriesErrorText(text) == text[1] = "Error executing tool: " => Len(text) >= 2

\* C4: a fault of one tool call becomes that call's outcome text and the later
\* requests of the batch are still resolved; only a failure of the model call
\* aborts the turn
C4_PerCallFaultStaysInItsCall ==
    /\ \A i \in 1..Len(tool_outputs) : CarriesErrorText(tool_outputs[i].output)
    /\ BatchTurnOver => turn_result = "ok" /\ Len(tool_outputs) = Len(Calls)
    /\ turn_result = "error" =>
           sent[Len(sent)] \in {ErrorMessage(ModelError), ErrorMessage(ClientError)}

\* the dispatch loop takes a step at a request whose name no provider declares
UnresolvedStep ==
    /\ pc = "loop"
    /\ idx <= Len(Calls)
    /\ JsonDecodes(Calls[idx].arguments)
    /\ find_mcp_for_tool(Calls[idx].name) = None
    /\ MainStepped

\* what the step does when the failure outcome's text is `text`
UnresolvedRecordedAs(text) ==
    /\ tool_outputs' = Append(tool_outputs, Output(Calls[idx].id, text))
    /\ invoked' = invoked
    /\ idx' = idx + 1
    /\ pc' = "loop"

\* C5 as stated: an unresolved name is recorded as the failure outcome
\* "No provider for tool <name>", no session is contacted, the loop goes on
C5_UnresolvedIsNoProviderFailure ==
    [][ UnresolvedStep =>
            UnresolvedRecordedAs(<<"No provider for tool ", Calls[idx].name>>) ]_vars

\* C5 amended: the outcome text is "Error executing tool: No MCP connection
\* found for tool: <name>"; no session is contacted, the loop goes on
C5_UnresolvedIsNoConnectionFailure ==
    [][ UnresolvedStep =>
            UnresolvedRecordedAs(<<"Error executing tool: ",
                                   "No MCP connection found for tool: ",
                                   Calls[idx].name>>) ]_vars

\* the first request was unresolved and the second one reached a session
C5_Witness ==
    /\ Len(tool_outputs) = 2
    /\ tool_outputs[1].output = <<"Error executing tool: ",
                                  "No MCP connection found for tool: ", Calls[1].name>>
    /\ Len(invoked) = 1
    /\ invoked[1].idx = 2

\* C8: under the direct policy each outcome is surfaced as its own message
\* whose author is the tool that produced it
C8_SurfacedUnderItsToolName ==
    (BatchTurnOver /\ turn_result = "ok") =>
        /\ Len(sent) = Len(Calls)
        /\ \A i \in 1..Len(Calls) :
               /\ sent[i].author = Some(Calls[i].name)
               /\ sent[i].content = tool_outputs[i].output

\* C9 as stated: each user message causes exactly one model call
C9_ExactlyOneModelCall == turn >= 1 => model_calls = 1

\* C9 amended: each user message causes at most one model call: one when the
\* client could be constructed, none when constructing it raised; nothing
\* after the tool outcomes calls the model again
C9_AtMostOneModelCall ==
    /\ turn >= 1 => model_calls = (IF ClientFails THEN 0 ELSE 1)
    /\ pc \in {"loop", "call"} => model_calls = 1
    /\ BatchTurnOver => model_calls = 1

\* a batch turn has surfaced its outcomes and is over
C9_Witness ==
    /\ BatchTurnOver
    /\ turn_result = "ok"
    /\ Len(tool_outputs) = 2
    /\ Len(invoked) >= 1
    /\ model_calls = 1

\* this step is the model call of the turn failing
ModelCallFailed == pc = "model" /\ pc' # "model" /\ response' = None

\* C10: a failing model call aborts only its turn: the error is surfaced, the
\* handler does not raise, the history is untouched, and the next user message
\* is taken and appended to that history
C10_ModelFailureAbortsOnlyTheTurn ==
    /\ [][ ModelCallFailed =>
               /\ turn_result' = "error"
               /\ pc' = "idle"
               /\ sent' = Append(sent, ErrorMessage(ModelError))
               /\ history' = history ]_vars
    /\ [][ (turn_result = "error" /\ pc' = "model") =>
               \E text \in UserTexts : history' = Append(history, UserEntry(text)) ]_vars
    /\ []( (pc = "idle" /\ turn_result = "error" /\ model_calls = 1 /\ turn < MaxTurns) =>
               ENABLED (\E text \in UserTexts : UserMessageCallsModel(text)) )

\* the first turn's model call failed and the second turn is awaiting the model
C10_Witness ==
    /\ turn = 2
    /\ pc = "model"
    /\ Len(history) = 3
    /\ history[2].role = "user"
    /\ history[3].role = "user"

\* the ids of the tool-call requests of the assistant messages among the first n
\* entries of the history
RequestIdsBefore(n) ==
    UNION { { history[j].tool_calls[1][k].id : k \in 1..Len(history[j].tool_calls[1]) } :
            j \in { j \in 1..(n - 1) : /\ history[j].role = "assistant"
                                       /\ history[j].tool_calls # None } }

\* C11: every role="tool" message of the history carries the id of a tool-call
\* request of an assistant message that stands earlier in the history.
C11_ToolMessageAnswersEarlierRequest ==
    \A i \in 1..Len(history) :
        history[i].role = "tool" => history[i].tool_call_id \in RequestIdsBefore(i)

\* a batch of two requests has been answered: the last two entries are tool
\* messages carrying the two ids of the assistant message before them
C11_Witness ==
    /\ Len(history) >= 4
    /\ history[Len(history)].role = "tool"
    /\ history[Len(history) - 1].role = "tool"
    /\ history[Len(history) - 2].role = "assistant"
    /\ history[Len(history) - 2].tool_calls # None
    /\ history[Len(history)].tool_call_id = history[Len(history) - 2].tool_calls[1][2].id
    /\ history[Len(history) - 1].tool_call_id = history[Len(history) - 2].tool_calls[1][1].id
    /\ history[Len(history)].tool_call_id # history[Len(history) - 1].tool_call_id

\* the value of a map after a step is its value before it
Kept(before, after) == after = before

\* C12: a run of on_mcp_disconnect for provider p completes with its message
\* sent to its session; a map that has no entry for p is left as it is, so a
\* disconnect of a provider never registered changes none of the three maps;
\* after the run no map the hook works on has an entry for p, so a second run
\* changes nothing more.
C12_DisconnectIdempotent ==
    [][\A own \in BOOLEAN, p \in Providers :
          Disconnect(own, p)
          => /\ own => notice' = DisconnectedMessage(p)
             /\ ~DictHas(mcp_tools, p) => Kept(mcp_tools, mcp_tools')
             /\ ~DictHas(mcp_sessions, p) => Kept(mcp_sessions, mcp_sessions')
             /\ ~DictHas(user_mcp_tools, p) => Kept(user_mcp_tools, user_mcp_tools')
             /\ ~DictHas(mcp_tools', p)
             /\ ~DictHas(mcp_sessions', p)
             /\ own => ~DictHas(user_mcp_tools', p)
             /\ \A q \in Providers \ {p} :
                   /\ DictHas(mcp_tools', q) <=> DictHas(mcp_tools, q)
                   /\ DictHas(mcp_tools, q) => DictVal(mcp_tools', q) = DictVal(mcp_tools, q)]_vars

\* the first hook to run was the disconnect of a provider that had never been
\* registered: the session has its message and the maps are still empty
C12_Witness ==
    /\ reg_ops = 1
    /\ notice = DisconnectedMessage("A")
    /\ mcp_tools = <<>>
    /\ mcp_sessions = <<>>
    /\ user_mcp_tools = <<>>

\* C13: a run of on_mcp_connect in which listing the tools fails ends with the
\* error message sent to its session and leaves the global tool map, the global
\* session map and the session's tool map as they were, an earlier entry for
\* the same provider included.
C13_FailedConnectChangesNothing ==
    [][\A own \in BOOLEAN, p \in Providers :
          ConnectFails(own, p)
          => /\ own => notice' = ConnectErrorMessage(p)
             /\ mcp_tools' = mcp_tools
             /\ mcp_sessions' = mcp_sessions
             /\ user_mcp_tools' = user_mcp_tools]_vars

\* provider A was registered by the first hook run and its second connect
\* failed at listing: the session has the error message, and the entry and the
\* session object of the first run are still there
C13_Witness ==
    /\ reg_ops = 2
    /\ notice = ConnectErrorMessage("A")
    /\ DictHas(mcp_tools, "A")
    /\ DictVal(mcp_tools, "A") # <<>>
    /\ DictHas(user_mcp_tools, "A")
    /\ DictVal(user_mcp_tools, "A") = DictVal(mcp_tools, "A")
    /\ DictHas(mcp_sessions, "A")
    /\ DictVal(mcp_sessions, "A") = <<"session", 1>>

\* the tool names of every entry of a tool map, entry after entry
RECURSIVE ListedNames(_)
ListedNames(tools_map) ==
    IF tools_map = <<>> THEN <<>>
    ELSE ToolNamesOf(Head(tools_map).val) \o ListedNames(Tail(tools_map))

\* the function names declared in the "tools" parameter of a model request
DeclaredNames(tools) ==
    IF tools = None THEN <<>> ELSE [i \in 1..Len(tools[1]) |-> tools[1][i].function.name]

\* each provider has at most one entry in the map
OneEntryEach(d) == \A i, j \in 1..Len(d) : d[i].key = d[j].key => i = j

\* C14: after a successful on_mcp_connect for provider p the global tool map and
\* the connecting session's tool map hold for p exactly the descriptors just
\* listed, in one entry, the session map holds the new session, and the other
\* providers' entries are as before; and every model call declares exactly the
\* tools that the session's tool map holds when the call is made.
C14_ConnectReplacesEntry ==
    [][/\ \A own \in BOOLEAN, p \in Providers, listed \in ToolLists :
            ConnectOk(own, p, listed)
            => /\ DictVal(mcp_tools', p) = ToolInfos(listed)
               /\ DictVal(mcp_sessions', p) = NewSession
               /\ own => DictVal(user_mcp_tools', p) = ToolInfos(listed)
               /\ OneEntryEach(mcp_tools') /\ OneEntryEach(mcp_sessions')
               /\ OneEntryEach(user_mcp_tools')
               /\ \A q \in Providers \ {p} :
                     /\ DictHas(mcp_tools', q) <=> DictHas(mcp_tools, q)
                     /\ DictHas(mcp_tools, q) => DictVal(mcp_tools', q) = DictVal(mcp_tools, q)
                     /\ DictHas(user_mcp_tools', q) <=> DictHas(user_mcp_tools, q)
                     /\ DictHas(user_mcp_tools, q)
                        => DictVal(user_mcp_tools', q) = DictVal(user_mcp_tools, q)
       /\ model_calls' = model_calls + 1
          => DeclaredNames(request_tools') = ListedNames(user_mcp_tools)]_vars

\* provider A was connected with foo and bar, bar was called in the first turn
\* and answered by A, then A was connected again with foo alone: the maps hold
\* foo alone with the second session, and the model call of the second turn
\* declares foo alone
C14_Witness ==
    /\ reg_ops = 2
    /\ turn = 2
    /\ pc = "model"
    /\ mcp_tools = << [key |-> "A", val |-> ToolInfos(<<Descriptor("foo")>>)] >>
    /\ user_mcp_tools = mcp_tools
    /\ mcp_sessions = << [key |-> "A", val |-> <<"session", 2>>] >>
    /\ request_tools = Some(<<Declaration(ToolInfo(Descriptor("foo")))>>)
    /\ \E i \in 2..Len(history) :
          /\ history[i].role = "tool"
          /\ history[i].content = ResultText("bar")
          /\ history[i - 1].role = "assistant"

\* the providers of the session's tool map that list a tool of the name
SessionProvidersOf(name) ==
    { user_mcp_tools[k].key : k \in { k \in 1..Len(user_mcp_tools) :
        \E j \in 1..Len(user_mcp_tools[k].val) : user_mcp_tools[k].val[j].name = name } }

\* C15: after on_mcp_disconnect for provider p, p has no entry in the global
\* tool map, in the global session map, or in the tool map of the session the
\* hook ran in; and every tool a model call declares is listed by a provider
\* that has an entry in the session's tool map at the time of the call, so
\* none is a tool of a disconnected provider alone.
C15_DisconnectPurgesProvider ==
    [][/\ \A own \in BOOLEAN, p \in Providers :
            Disconnect(own, p)
            => /\ p \notin DictKeys(mcp_tools')
               /\ p \notin DictKeys(mcp_sessions')
               /\ own => p \notin DictKeys(user_mcp_tools')
               /\ own => \A name \in ToolNames : p \notin SessionProvidersOf(name)'
       /\ model_calls' = model_calls + 1
          => \A i \in 1..Len(DeclaredNames(request_tools')) :
                SessionProvidersOf(DeclaredNames(request_tools')[i]) # {}]_vars

\* provider A, connected with foo and bar and called for bar in the first turn,
\* was then disconnected: it is in none of the maps, and the model call of the
\* second turn declares no tool
C15_Witness ==
    /\ reg_ops = 2
    /\ notice = DisconnectedMessage("A")
    /\ mcp_tools = <<>>
    /\ mcp_sessions = <<>>
    /\ user_mcp_tools = <<>>
    /\ turn = 2
    /\ pc = "model"
    /\ model_calls = 1
    /\ request_tools = None
    /\ \E i \in 2..Len(history) :
          /\ history[i].role = "tool"
          /\ history[i].content = ResultText("bar")

\* the k-th invocation of the turn has returned and its outcome is recorded
\* for its request
Answered(k) ==
    /\ Len(tool_outputs) >= invoked[k].idx
    /\ tool_outputs[invoked[k].idx].tool_call_id = Calls[invoked[k].idx].id

\* the k-th invocation of the turn is awaited now
Outstanding(k) == pc = "call" /\ k = Len(invoked) /\ invoked[k].idx = idx

\* C22: the invocations of a batch are made in request order, and a call is
\* handed to a session only when every earlier invocation of the batch, to
\* that session or another, has returned: at any time only the last
\* invocation can be awaited, all before it have their outcome recorded.
C22_CallsToASessionAreSerial ==
    /\ \A a, b \in 1..Len(invoked) : a < b => invoked[a].idx < invoked[b].idx
    /\ \A k \in 1..Len(invoked) :
          /\ Outstanding(k) => ~Answered(k)
          /\ ~Outstanding(k) => Answered(k)
    /\ \A a, b \in 1..Len(invoked) :
          a < b /\ invoked[a].session = invoked[b].session => Answered(a)

\* the second call of a batch is awaited on the session that has answered the
\* first
C22_Witness ==
    /\ pc = "call"
    /\ Len(invoked) = 2
    /\ invoked[1].session = invoked[2].session
    /\ invoked[1].idx = 1
    /\ invoked[2].idx = 2
    /\ Len(tool_outputs) = 1
    /\ tool_outputs[1].tool_call_id = Calls[1].id

\* the provider of the call that is awaited
InFlightProvider == invoked[Len(invoked)].provider

\* what the awaited call can leave in tool_outputs: the session's text, the
\* placeholder of an empty result, or the error the session raised
OwnOutcomes ==
    { [tool_call_id |-> Calls[idx].id, output |-> ResultText(Calls[idx].name)],
      [tool_call_id |-> Calls[idx].id,
       output |-> <<"Tool executed, but returned no content.">>],
      [tool_call_id |-> Calls[idx].id,
       output |-> <<"Error executing tool: ">> \o TransportError] }

\* C23: a disconnect of the provider whose session has a call in flight leaves
\* the call alone: the step that unregisters changes nothing of the dispatch,
\* the call can still end in each of its own outcomes, and the outcome it
\* ends in is recorded for its request, whether or not the provider is still
\* registered.
C23_DisconnectLeavesCallInFlight ==
    /\ [](pc = "call" => \A outcome \in CallOutcomes : ENABLED CallReturns(outcome))
    /\ [][pc = "call" /\ DictHas(mcp_sessions, InFlightProvider)
                      /\ ~DictHas(mcp_sessions', InFlightProvider)
          => UNCHANGED <<pc, idx, tool_name, tool_outputs, invoked, response, history>>]_vars
    /\ [][pc = "call" /\ pc' # "call"
          => /\ Len(tool_outputs') = Len(tool_outputs) + 1
             /\ SubSeq(tool_outputs', 1, Len(tool_outputs)) = tool_outputs
             /\ tool_outputs'[Len(tool_outputs')] \in OwnOutcomes
             /\ (\A outcome \in OwnOutcomes :
                   \E o \in CallOutcomes :
                       CallOutput(o, Calls[idx].id, Calls[idx].name) = outcome)]_vars

\* the call is awaited and its provider has been unregistered meanwhile
C23_Witness ==
    /\ pc = "call"
    /\ ~DictHas(mcp_sessions, InFlightProvider)
    /\ ~DictHas(mcp_tools, InFlightProvider)

\* the response of the turn carries content and a non-empty tool-call list
ContentAndCalls ==
    /\ response # None
    /\ response[1].content # None
    /\ response[1].tool_calls # None
    /\ response[1].tool_calls[1] # <<>>

\* C24: a response with both content and tool calls takes the tool-call path:
\* the step that receives it starts the dispatch loop and surfaces nothing,
\* no message of the turn carries the content, and a turn that ends well
\* has one outcome and one surfaced message per requested call.
C24_ContentWithCallsTakesToolPath ==
    /\ [](ContentAndCalls =>
            /\ pc \in {"loop", "call", "idle"}
            /\ idx >= 1
            /\ \A i \in 1..Len(sent) : sent[i].content # response[1].content[1]
            /\ turn_result = "ok" =>
                  /\ Len(tool_outputs) = Len(response[1].tool_calls[1])
                  /\ Len(sent) = Len(response[1].tool_calls[1])
                  /\ \A i \in 1..Len(sent) : sent[i].content = tool_outputs[i].output)
    /\ [][pc = "model" /\ ContentAndCalls' => pc' = "loop" /\ sent' = sent]_vars

\* a turn whose response carried content and a call has ended with the call
\* made on a session
C24_Witness ==
    /\ ContentAndCalls
    /\ pc = "idle"
    /\ turn_result = "ok"
    /\ Len(invoked) >= 1
    /\ Len(sent) >= 1

\* the response of the turn has no tool calls: the list is absent or empty
NoCalls ==
    /\ response # None
    /\ response[1].tool_calls = None \/ response[1].tool_calls[1] = <<>>

\* C25: a response without tool calls adds one assistant message, the
\* response itself, to the history and surfaces one message with its
\* content; the turn ends there, with that message the only one surfaced and
\* no provider session contacted.
C25_PlainReplyOnce ==
    /\ [][pc = "model" /\ NoCalls' =>
            /\ Len(history') = Len(history) + 1
            /\ SubSeq(history', 1, Len(history)) = history
            /\ history'[Len(history')].role = "assistant"
            /\ history'[Len(history')] = response'[1]
            /\ sent' = Append(sent, [author |-> None, content |-> response'[1].content[1]])
            /\ invoked' = invoked]_vars
    /\ [](NoCalls =>
            /\ pc = "idle"
            /\ Len(sent) = 1
            /\ sent[1].content = response[1].content[1]
            /\ invoked = <<>>
            /\ tool_outputs = <<>>
            /\ history[Len(history)] = response[1])

\* a turn has ended with a plain reply while a provider with a live session
\* is registered
C25_Witness ==
    /\ NoCalls
    /\ pc = "idle"
    /\ turn_result = "ok"
    /\ mcp_sessions # <<>>
    /\ request_tools # None

\* the descriptors a session has registered, provider after provider
RECURSIVE Registered(_)
Registered(tools_map) ==
    IF tools_map = <<>> THEN <<>>
    ELSE tools_map[1].val \o Registered(SubSeq(tools_map, 2, Len(tools_map)))

\* C26: the declarations of a model call translate the session's registered
\* descriptors one to one and in order: type "function" and a function of
\* exactly name, description and parameters, equal to the descriptor's name,
\* description and input schema; with no descriptor registered the call
\* carries no declaration at all.
C26_DeclarationsMirrorDescriptors ==
    [][pc = "idle" /\ pc' = "model" =>
         LET regd == Registered(user_mcp_tools)
         IN IF regd = <<>> THEN request_tools' = None
            ELSE /\ request_tools' # None
                 /\ Len(request_tools'[1]) = Len(regd)
                 /\ \A i \in 1..Len(regd) :
                       LET decl == request_tools'[1][i]
                       IN /\ DOMAIN decl = {"type", "function"}
                          /\ decl.type = "function"
                          /\ DOMAIN decl.function = {"name", "description", "parameters"}
                          /\ decl.function.name = regd[i].name
                          /\ decl.function.description = regd[i].description
                          /\ decl.function.parameters = regd[i].input_schema]_vars

\* a model call is under way with the declarations of two providers, one of
\* them for a tool without description
C26_Witness ==
    /\ pc = "model"
    /\ request_tools # None
    /\ Len(request_tools[1]) >= 3
    /\ \E i \in 1..Len(request_tools[1]) : request_tools[1][i].function.description = None
    /\ \E i \in 1..Len(request_tools[1]) : request_tools[1][i].function.description # None

\* the session is as start_chat left it: no message handled, no hook run
JustStarted == turn = 0 /\ pc = "idle" /\ reg_ops = 0

\* C27: a session started with required variables missing has surfaced one
\* error message that names the missing variables, and its history is the
\* single system-prompt message, the same as in a session started with
\* nothing missing.
C27_StartWithMissingVariables ==
    JustStarted =>
        /\ history = << [role |-> "system", content |-> SYSTEM_PROMPT] >>
        /\ env_missing # {} =>
              /\ notice.author = None
              /\ Len(notice.content) = 3
              /\ notice.content[1] = "**Error:** Missing Azure OpenAI environment variables: "
              /\ notice.content[2] = env_missing
        /\ env_missing = {} => notice.content = <<"Hello!">>

\* a session started with two of the three variables set
C27_Witness ==
    /\ JustStarted
    /\ env_missing = {"AZURE_OPENAI_API_KEY"}
    /\ notice.content[2] = {"AZURE_OPENAI_API_KEY"}
    /\ Len(history) = 1
    /\ history[1].role = "system"

\* the provider names of the tool map in its order
KeyOrder(d) == [i \in 1..Len(d) |-> d[i].key]

\* the provider that stands first in the tool map among those declaring the name
FirstDeclaring(name) ==
    LET declaring == { i \in 1..Len(mcp_tools) : name \in DeclaredBy(mcp_tools, mcp_tools[i].key) }
    IN IF declaring = {} THEN None
       ELSE Some(mcp_tools[CHOOSE i \in declaring : \A k \in declaring : i <= k].key)

\* C30: find_mcp_for_tool returns the provider standing first in the tool map
\* among those that declare the name, and the order of the tool map is the
\* order of insertion: a new provider goes last, a removal keeps the order
\* of the others, and registering a provider that is present leaves every
\* position as it was.
C30_FirstMatchInInsertionOrder ==
    /\ [](\A name \in ToolNames : find_mcp_for_tool(name) = FirstDeclaring(name))
    /\ [][LET old == KeyOrder(mcp_tools)
              new == KeyOrder(mcp_tools')
          IN /\ Range(new) = Range(old) => new = old
             /\ \A p \in Range(new) \ Range(old) : new = Append(old, p)
             /\ \A p \in Range(old) \ Range(new) : new = SelectSeq(old, LAMBDA k : k # p)]_vars

\* A was registered before B, both declare foo, and A has been registered
\* again since: foo still resolves to A
C30_Witness ==
    /\ reg_ops = 3
    /\ KeyOrder(mcp_tools) = <<"A", "B">>
    /\ "foo" \in DeclaredBy(mcp_tools, "A")
    /\ "foo" \in DeclaredBy(mcp_tools, "B")
    /\ DictVal(mcp_sessions, "A") = <<"session", 3>>
    /\ DictVal(mcp_sessions, "B") = <<"session", 2>>
    /\ find_mcp_for_tool("foo") = Some("A")

\* the names the session declares to the model: those of its own tool map
SessionDeclares ==
    UNION { DeclaredBy(user_mcp_tools, p) : p \in DictKeys(user_mcp_tools) }

\* C31: whatever connects and disconnects the chat sessions of the process
\* have issued, every tool the session declares to the model resolves
\* through find_mcp_for_tool to a provider that has an active session.
C31_DeclaredToolsResolve ==
    \A name \in SessionDeclares :
        /\ find_mcp_for_tool(name) # None
        /\ DictHas(mcp_sessions, find_mcp_for_tool(name)[1])

\* C32: the global tool map and the global session map hold the same provider
\* names, in the same order, in every state; a name that find_mcp_for_tool
\* resolves has a session, and no call outcome is the error of a provider
\* without active session.
C32_ToolMapAndSessionMapAgree ==
    /\ KeyOrder(mcp_tools) = KeyOrder(mcp_sessions)
    /\ \A name \in ToolNames :
          find_mcp_for_tool(name) # None =>
              \E i \in 1..Len(mcp_sessions) : mcp_sessions[i].key = find_mcp_for_tool(name)[1]
    /\ \A i \in 1..Len(tool_outputs) :
          Len(tool_outputs[i].output) >= 2 =>
              tool_outputs[i].output[2] # "No active session for MCP connection: "

\* after a connect and a disconnect one provider is left in both maps, and a
\* call has been handed to its session
C32_Witness ==
    /\ reg_ops = 2
    /\ Len(mcp_tools) = 1
    /\ Len(mcp_sessions) = 1
    /\ pc = "call"
    /\ invoked[Len(invoked)].provider = mcp_sessions[1].key

\* the message at position i of h is an assistant message that carries tool calls
RequestsAt(h, i) ==
    /\ h[i].role = "assistant"
    /\ h[i].tool_calls # None
    /\ h[i].tool_calls[1] # <<>>

\* the assistant message at position i is followed at once by one tool message
\* per tool-call id, in the order of its calls
AnsweredAt(h, i) ==
    LET calls == h[i].tool_calls[1]
    IN /\ Len(h) >= i + Len(calls)
       /\ \A k \in 1..Len(calls) :
             /\ h[i + k].role = "tool"
             /\ h[i + k].tool_call_id = calls[k].id

\* C33: when a user message is appended, every assistant message with tool
\* calls that is in the history is followed at once by one tool message per
\* tool-call id it contains.
C33_ToolCallsAnsweredAtTurnStart ==
    [][turn' # turn =>
         \A i \in 1..Len(history') : RequestsAt(history', i) => AnsweredAt(history', i)]_vars

\* C35: a turn that is under way comes to its end, and a turn that has ended
\* has surfaced at least one message: the reply, the tool outcomes or an
\* error message; no user message is left without one.
C35_EveryTurnEndsWithAMessage ==
    /\ (pc # "idle") ~> (pc = "idle")
    /\ [](turn >= 1 /\ pc = "idle" => Len(sent) >= 1 /\ turn_result \in {"ok", "error"})
    /\ [][turn' # turn /\ pc' = "idle" => sent' = <<ErrorMessage(ClientError)>>]_vars

\* a turn with a tool call made on a session has ended with its outcome
\* surfaced
C35_Witness ==
    /\ turn >= 1
    /\ pc = "idle"
    /\ turn_result = "ok"
    /\ Len(invoked) >= 1
    /\ Len(sent) = Len(tool_outputs)
    /\ Len(sent) >= 1

\* ---------------------------------------------------------------- claims on mcp_postgres_server.py
\* alphanumerics, '.' and '_'
AllowListed(c) ==
    \/ \E k \in 1..Len(LowerLetters) : c \in {LowerLetters[k], UpperLetters[k]}
    \/ c \in Digits \cup {".", "_"}

OffAllowList(name) == name # None /\ \E i \in 1..Len(name[1]) : ~AllowListed(name[1][i])

\* C6: a query_table command whose table_name holds a character other than
\* alphanumerics, '.' and '_' issues no statement on a pooled connection, the
\* statement built from the name included, and ends with an error result.
C6_OffListNameRejectedBeforeSql ==
    \A w \in Workers :
        job[w].action = "query_table" /\ OffAllowList(job[w].arg)
        => /\ job[w].issued = <<>>
           /\ job[w].pc = "done" => ~job[w].result[1].success

\* the query, cut after its leading whitespace, opens with the six letters of
\* SELECT in either case
BeginsWithSelect(query) ==
    /\ query # None
    /\ \E n \in 0..Len(query[1]) :
          /\ \A k \in 1..n : query[1][k] \in Whitespace
          /\ n < Len(query[1]) => query[1][n + 1] \notin Whitespace
          /\ Len(query[1]) >= n + 6
          /\ \A k \in 1..6 :
                \E l \in 1..Len(UpperLetters) :
                    UpperLetters[l] = SELECT[k]
                    /\ query[1][n + k] \in {UpperLetters[l], LowerLetters[l]}

ExecuteQueryDone(w) == job[w].pc = "done" /\ job[w].action = "execute_query"

OnlySelectError == <<"Only SELECT queries are allowed for safety">>

Secrets ==
    {"pw2", "pw"}
    \cup UNION { Range(e.POSTGRES_PASSWORD[1]) \ {"@"} :
                 e \in { e \in PgEnvChoices : e.POSTGRES_PASSWORD # None } }

\* the texts a result hands to the caller
SurfacedTexts(result) == {result.error, result.info}

\* C16: no text of a gateway result, the connection description of a
\* successful connect_db and the error texts included, holds a part of a
\* database password.
C16_NoPasswordSurfaced ==
    \A w \in Workers :
        job[w].result # None
        => \A text \in SurfacedTexts(job[w].result[1]) : Range(text) \cap Secrets = {}

DataActions == {"list_tables", "query_table", "execute_query", "get_table_schema"}

\* C17: where the environment yields a connection string, a data operation
\* given to the gateway while no pool exists creates the pool and runs: once
\* it has finished, the shared pool exists and the operation was not refused
\* for want of a connection.
C17_DataOperationCreatesPool ==
    \A w \in Workers :
        /\ job[w].pc = "done"
        /\ job[w].action \in DataActions
        /\ ResolveConnString(None) # None
        => /\ connection_pool # None
           /\ job[w].result[1] # NotConnected

NoStringError ==
    ErrorResult(<<"No connection string provided and no DATABASE_URL in environment">>)

GivenText(opt) == opt # None /\ Len(opt[1]) > 0

\* the string of the discrete variables: user, password, host, port, database
Assembled(env) ==
    <<"postgresql://">> \o env.POSTGRES_USER[1] \o <<":">>
    \o (IF env.POSTGRES_PASSWORD = None THEN <<"None">> ELSE env.POSTGRES_PASSWORD[1])
    \o <<"@">>
    \o (IF env.POSTGRES_HOST = None THEN <<"localhost">> ELSE env.POSTGRES_HOST[1])
    \o <<":">>
    \o (IF env.POSTGRES_PORT = None THEN <<"5432">> ELSE env.POSTGRES_PORT[1])
    \o <<"/">> \o env.POSTGRES_DB[1]

\* the connect_db command of thread w has settled on the string s
ConnectsWith(w, s) == job[w].pc # "done" \/ job[w].result[1] # NoStringError
                      => job[w].conn_string = s

\* C18: connect_db takes a non-empty connection_string argument; failing that a
\* non-empty DATABASE_URL; failing that the string assembled from the
\* POSTGRES_* variables when database and user are both set; failing all three
\* it ends with an error at once, and that step neither closes a pool nor
\* creates one.
C18_ConnStringPriority ==
    /\ [](\A w \in Workers :
            job[w].action = "connect_db"
            => IF GivenText(job[w].arg)
               THEN /\ ConnectsWith(w, job[w].arg[1])
                    /\ job[w].pc = "done" => job[w].result[1] # NoStringError
               ELSE IF GivenText(pg_env.DATABASE_URL)
               THEN /\ ConnectsWith(w, pg_env.DATABASE_URL[1])
                    /\ job[w].pc = "done" => job[w].result[1] # NoStringError
               ELSE IF GivenText(pg_env.POSTGRES_DB) /\ GivenText(pg_env.POSTGRES_USER)
               THEN /\ ConnectsWith(w, Assembled(pg_env))
                    /\ job[w].pc = "done" => job[w].result[1] # NoStringError
               ELSE /\ job[w].pc = "done"
                    /\ job[w].result[1] = NoStringError
                    /\ job[w].acquired = 0)
    /\ [][\A w \in Workers :
            job'[w] # job[w] /\ job'[w].result = Some(NoStringError)
            => UNCHANGED <<pools, connection_pool, connection_string>>]_vars

\* with DATABASE_URL and the discrete variables both set, a connect_db given an
\* empty argument has connected with DATABASE_URL on one thread, and one given
\* a string has connected with that string on the other
C18_Witness ==
    /\ GivenText(pg_env.DATABASE_URL)
    /\ GivenText(pg_env.POSTGRES_DB)
    /\ job[1].action = "connect_db"
    /\ job[1].arg = Some(<<>>)
    /\ job[1].pc = "done"
    /\ job[1].result[1].success
    /\ job[1].conn_string = pg_env.DATABASE_URL[1]
    /\ job[2].action = "connect_db"
    /\ job[2].arg = Some(DsnArg)
    /\ job[2].pc = "done"
    /\ job[2].result[1].success
    /\ job[2].conn_string = DsnArg
    /\ connection_string = Some(DsnArg)

\* thread w leaves the creation of the pool with no new pool made
PoolCreationFailed(w) ==
    /\ job[w].pc = "create"
    /\ job'[w].pc # "create"
    /\ connection_pool' = connection_pool

\* a finished command has a result: success, or success=false with an error text
Structured(j) ==
    /\ j.result # None
    /\ j.result[1].success => j.result[1].error = <<>>
    /\ ~j.result[1].success => j.result[1].error # <<>>

HoldersOf(p) == { w \in Workers : job[w].pc = "run" /\ job[w].pool = p }

\* C20: the connections held outside a pool are those of the commands that are
\* inside their async with block on it, one each; a finished command holds
\* none, however it left the block, so with every command finished no
\* connection of any pool is held.
C20_ConnectionsReleasedOnEveryPath ==
    /\ \A p \in 1..Len(pools) : pools[p].held = Cardinality(HoldersOf(p))
    /\ \A w \in Workers : job[w].pc = "done" => job[w].pool = 0
    /\ (\A w \in Workers : Free(w)) => \A p \in 1..Len(pools) : pools[p].held = 0

\* both threads have acquired a connection and finished, one by the early
\* return of a table not found and one by an exception of its fetch; no
\* connection is held
C20_Witness ==
    /\ job[1].pc = "done"
    /\ job[1].action = "query_table"
    /\ job[1].acquired = 1
    /\ job[1].result = Some(ErrorResult(<<"Table '", "g", "' not found">>))
    /\ job[2].pc = "done"
    /\ job[2].action = "execute_query"
    /\ job[2].acquired = 1
    /\ job[2].result = Some(ErrorResult(FetchError))
    /\ Len(pools) = 1
    /\ pools[1].held = 0

\* thread w issues connection_pool.acquire() in this step
IssuesAcquire(w) == job[w].pc = "acquire" /\ job'[w].pc # "acquire"

\* C21: a pool is closed only when no command can still issue an acquisition
\* against it: no command on either thread issues connection_pool.acquire()
\* against a pool that has been closed.
C21_NoAcquireAgainstClosedPool ==
    [][\A w \in Workers : IssuesAcquire(w) => ~pools[connection_pool[1]].closed]_vars

\* the table the name denotes: schema.table, or table alone in schema public
Denotes(name, tab) ==
    \/ name = tab.schema \o <<".">> \o tab.table
    \/ tab.schema = PUBLIC /\ name = tab.table /\ "." \notin Range(name)

\* the columns query of get_table_schema finds no column for the name
NoColumnMatches(name) == name # None /\ \A tab \in DbTables : ~Denotes(name[1], tab)

\* C28: get_table_schema for a name no column matches never issues the
\* primary-key or the foreign-key query, and when its columns query has
\* answered it ends with the not-found error result.
C28_SchemaNotFoundSkipsKeyQueries ==
    \A w \in Workers :
        job[w].action = "get_table_schema" /\ NoColumnMatches(job[w].arg) =>
            /\ PrimaryKeysSql \notin Range(job[w].issued)
            /\ ForeignKeysSql \notin Range(job[w].issued)
            /\ job[w].pc = "done" /\ job[w].acquired = 1
                  /\ job[w].result # Some(ErrorResult(FetchError)) =>
                  /\ job[w].issued = <<SchemaColumnsSql>>
                  /\ ~job[w].result[1].success
                  /\ job[w].result[1].error
                       = <<"Table '">> \o job[w].arg[1] \o <<"' not found">>

\* get_table_schema has asked for the columns of a table that is not there
\* and has ended
C28_Witness ==
    \E w \in Workers :
        /\ job[w].action = "get_table_schema"
        /\ job[w].arg = Some(<<"g">>)
        /\ job[w].pc = "done"
        /\ job[w].acquired = 1
        /\ job[w].issued = <<SchemaColumnsSql>>
        /\ job[w].result = Some(ErrorResult(<<"Table '", "g", "' not found">>))

\* a query_table command has run its block on a connection to the end
QueryTableRan(w) ==
    /\ job[w].action = "query_table"
    /\ job[w].pc = "done"
    /\ job[w].acquired = 1
    /\ job[w].result # Some(ErrorResult(FetchError))

\* C29: query_table that has run on an existing table ends with a success
\* result whose row count is min(limit, max(0, rows of the table - offset)),
\* a count of zero included.
C29_RowCountOfExistingTable ==
    \A w \in Workers, tab \in DbTables :
        QueryTableRan(w) /\ job[w].arg # None /\ Denotes(job[w].arg[1], tab) =>
            /\ job[w].result[1].success
            /\ job[w].result[1].row_count
                 = (IF tab.rows - job[w].page.offset < 0 THEN 0
                    ELSE IF tab.rows - job[w].page.offset < job[w].page.limit
                         THEN tab.rows - job[w].page.offset
                         ELSE job[w].page.limit)

\* C34: with no command running, the pool the gateway holds as its current
\* pool is never a closed one: there is no current pool, or it is open; a
\* connect_db that failed after it closed the old pool leaves none behind.
C34_NoClosedCurrentPool ==
    (\A w \in Workers : Free(w)) =>
        \/ connection_pool = None
        \/ ~pools[connection_pool[1]].closed

\* ---------------------------------------------------------------- claims on the provider servers
\* the actions a server's worker has a branch for
KnownActions(server) ==
    IF server = "postgres"
    THEN {"debug_env", "connect_db", "list_tables", "query_table", "execute_query",
          "get_table_schema"}
    ELSE {"debug_env", "list_tables", "get_table", "test_connection"}

\* the tool names a server's handler has a branch for
KnownTools(server) ==
    IF server = "postgres"
    THEN {"debug_postgres_env", "connect_postgres", "list_postgres_tables",
          "query_postgres_table", "execute_postgres_query", "get_postgres_schema"}
    ELSE {"debug_env", "test_om_connection", "list_om_tables", "get_om_table"}

HandlerDone == tool_call.pc = "done" /\ tool_call.via = "handler"

WorkerDone == tool_call.pc = "done" /\ tool_call.via = "worker"

\* the handler read a key a variant that names the action of a failure would miss
FailureWithoutAction ==
    /\ HandlerDone
    /\ tool_call.result # None
    /\ ~tool_call.result[1].success
    /\ "action" \notin DOMAIN tool_call.result[1]

\* C36: handle_call_tool of either server returns exactly one text item and
\* never raises, whatever the tool name and whatever result, success or
\* failure, the worker gave it; a name it has no tool for is answered with an
\* "Unknown tool" text; and a worker asked for an action it does not have
\* returns a result with success false.
C36_HandlersAnswerWithOneText ==
    /\ ~tool_call.raised
    /\ HandlerDone =>
         /\ Len(tool_call.reply) = 1
         /\ tool_call.reply[1].type = "text"
         /\ tool_call.name \notin KnownTools(tool_call.server) =>
              tool_call.reply[1].text = <<"Unknown tool: ", tool_call.name>>
    /\ (WorkerDone /\ tool_call.action \notin KnownActions(tool_call.server)) =>
         /\ tool_call.result # None
         /\ tool_call.result[1].success = FALSE

C36_Witness ==
    /\ FailureWithoutAction
    /\ Len(tool_call.reply) = 1
    /\ tool_call.served = 2

\* the lookup of get_om_table has returned a result of its own
LookupDone ==
    /\ HandlerDone
    /\ tool_call.name = "get_om_table"
    /\ tool_call.result # None
    /\ "attempts" \in DOMAIN tool_call.result[1]

\* the calls the lookup is to make for a name, in order
Plan(table_name) ==
    LET exact == [method |-> "get_table_by_name", argument |-> table_name]
        byId == [method |-> "get_table", argument |-> table_name]
        fqns == IF table_name # None /\ ~HasDot(table_name[1])
                THEN [i \in 1..3 |-> [method |-> "get_table_by_name",
                                      argument |-> Some(FqnAttempts(table_name[1])[i])]]
                ELSE <<>>
    IN <<exact>> \o fqns \o <<byId>>

\* the i-th call the client received returned a table
GaveData(i) == tool_call.client_calls[i].outcome = "data"

\* the entry of the attempts list says success
SaysSuccess(entry) == entry[Len(entry)] = " - success"

\* the method the result reports for a call of the plan
Reported(call, table_name) ==
    IF call.method = "get_table" THEN <<"get_table (ID)">>
    ELSE IF call.argument = table_name THEN <<"get_table_by_name (exact)">>
    ELSE <<"get_table_by_name (FQN: ">> \o call.argument[1] \o <<")">>

\* C37: the lookup of get_table makes its calls in the fixed order (exact
\* name, the three qualified names when the name has no dot, then the id) and
\* makes none after one that returned data; its result is a success exactly
\* when some call returned data; the method it reports is the call that
\* returned data; and the attempts list of a success has one entry per call
\* made, with exactly one success entry, the last one.
C37_LookupStopsAtFirstSuccess ==
    LookupDone =>
        LET made == tool_call.client_calls
            result == tool_call.result[1]
            plan == Plan(tool_call.table_name)
        IN /\ Len(made) <= Len(plan)
           /\ \A i \in 1..Len(made) :
                /\ made[i].method = plan[i].method
                /\ made[i].argument = plan[i].argument
                /\ i < Len(made) => ~GaveData(i)
           /\ result.success <=> \E i \in 1..Len(made) : GaveData(i)
           /\ result.success =>
                /\ result.method_used = Reported(made[Len(made)], tool_call.table_name)
                /\ Len(result.attempts) = Len(made)
                /\ \A i \in 1..Len(result.attempts) :
                     SaysSuccess(result.attempts[i]) <=> i = Len(result.attempts)

====
